---- MODULE Spec2Model ----
(***************************************************************************)
(* A model of the commit classifier of the git-commit plugin               *)
(* (plugins/git-commit/skills/git-commit/scripts/analyze-diff.py):         *)
(* DiffAnalyzer.get_staged_changes, infer_scope, infer_type,               *)
(* generate_description, is_breaking_change and analyze.                   *)
(*                                                                         *)
(* Python strings are TLA+ strings; the string methods and the regular     *)
(* expressions the code uses are operators over their characters.  A       *)
(* confidence is kept in tenths (0.3 is 3, 0.9 is 9, 1.0 is 10), which is  *)
(* exact for score / 10.  An Optional value is the empty set (None) or a   *)
(* singleton.                                                              *)
(***************************************************************************)
EXTENDS Integers, Sequences, FiniteSets, TLC

VARIABLES
    scope_patterns,  \* DiffAnalyzer.SCOPE_PATTERNS, the dict the class holds
    type_keywords,   \* DiffAnalyzer.TYPE_KEYWORDS, the dict the class holds
    git_root,        \* self.git_root is not None
    files_output,    \* stdout of git diff --staged --name-status
    diff_output,     \* stdout of git diff --staged
    stats_output,    \* stdout of git diff --staged --stat
    pc,              \* position inside analyze()
    files,           \* analyze: files
    diff,            \* analyze: diff
    scope,           \* analyze: scope
    commit_type,     \* analyze: commit_type
    type_scores,     \* infer_type: type_scores, its keys in insertion order
    confidence,      \* analyze: confidence, in tenths
    description,     \* analyze: description
    is_breaking,     \* analyze: is_breaking
    breaking_reason, \* analyze: breaking_reason
    result,          \* the dict analyze() returned
    run,             \* how many times analyze-diff.py was started on this index
    first,           \* the result of the first run
    args,            \* main: args, the flags --json and --commit
    main_pc,         \* position inside main()
    commit_msg,      \* main: commit_msg
    response,        \* main: response, what the user typed
    stdout,          \* what main printed, line by line
    exit_code,       \* the exit status of analyze-diff.py
    git_commit,      \* the message of the git commit that main executed
    ccmp_file,       \* .ccmp/state.json: whether it exists, parses, and its value
    call,            \* the last call made on CCMPIntegration, and what it returned
    procs,           \* the processes that are inside update_state, by name
    dirs,            \* the directories that exist in the project
    sessions_file,   \* .sessions/state.json: whether it exists, parses, and its value
    session,         \* the session command that ran last, and how it ended
    objectives,      \* what load_session_objectives returned or raised
    history,         \* the commits of the last week, oldest first, with their files
    lenient,         \* whether datetime.fromisoformat takes a trailing offset (Python 3.11)
    tdd_analysis,    \* what analyze_tdd_cycle_timing returned or raised
    commit_subjects, \* the subjects that git log --format=%s lists
    commit_analyzer, \* the four lists of CommitAnalyzer
    current,         \* the current Version
    next_version,    \* what get_next_version returned
    version_pc,      \* where version.py is: start, analyzed, done
    extended_file,   \* .claude-plugin/marketplace.extended.json
    output_file,     \* .claude-plugin/marketplace.json
    sync             \* how sync_marketplace ended

\* the state of main() of analyze-diff.py
main_vars == << args, main_pc, commit_msg, response, stdout, exit_code, git_commit >>

\* the state that CCMPIntegration works on
integration_vars == << ccmp_file, call, procs >>

\* the project that the session commands and the status report work on
session_vars == << dirs, sessions_file, session, objectives >>

\* the state that TDDAnalyzer works on
tdd_vars == << history, lenient, tdd_analysis >>

\* the state of version.py
version_vars == << commit_subjects, commit_analyzer, current, next_version, version_pc >>

\* the state of sync-marketplace.py
sync_vars == << extended_file, output_file, sync >>

\* everything outside DiffAnalyzer
elsewhere == << main_vars, integration_vars, session_vars, tdd_vars, version_vars, sync_vars >>

vars == << scope_patterns, type_keywords, git_root, files_output, diff_output, stats_output, pc, files, diff,
           scope, commit_type, type_scores, confidence, description, is_breaking,
           breaking_reason, result, run, first, elsewhere >>

\* ------------------------------------------------------------------------
\* Python values

None == {}

Some(x) == {x}

Min(a, b) == IF a <= b THEN a ELSE b

\* ------------------------------------------------------------------------
\* str methods

\* s[i:] with i counted from 1
Drop(s, i) == SubSeq(s, i, Len(s))

\* s[:n]
Take(s, n) == SubSeq(s, 1, Min(n, Len(s)))

\* s.startswith(p)
StartsWith(s, p) == Len(p) <= Len(s) /\ SubSeq(s, 1, Len(p)) = p

\* s.endswith(p)
EndsWith(s, p) == Len(p) <= Len(s) /\ SubSeq(s, Len(s) - Len(p) + 1, Len(s)) = p

\* s.find(p, from): the least index >= from where p occurs in s, 0 when none
Find(s, p, from) ==
    LET hits == { i \in from .. (Len(s) - Len(p) + 1) : SubSeq(s, i, i + Len(p) - 1) = p }
    IN  IF hits = {} THEN 0 ELSE CHOOSE i \in hits : \A j \in hits : i <= j

\* s.rfind(p): the greatest index where p occurs in s, 0 when none
RFind(s, p) ==
    LET hits == { i \in 1 .. (Len(s) - Len(p) + 1) : SubSeq(s, i, i + Len(p) - 1) = p }
    IN  IF hits = {} THEN 0 ELSE CHOOSE i \in hits : \A j \in hits : j <= i

\* p in s
Contains(s, p) ==
    \E i \in 1 .. (Len(s) - Len(p) + 1) : SubSeq(s, i, i + Len(p) - 1) = p

UpperCase == "ABCDEFGHIJKLMNOPQRSTUVWXYZ"

LowerCase == "abcdefghijklmnopqrstuvwxyz"

Digits == "0123456789"

\* the lower-case letter of each upper-case letter
TO_LOWER == [ c \in { SubSeq(UpperCase, i, i) : i \in 1 .. Len(UpperCase) } |->
                LET i == Find(UpperCase, c, 1) IN SubSeq(LowerCase, i, i) ]

LowerChar(c) == IF c \in DOMAIN TO_LOWER THEN TO_LOWER[c] ELSE c

\* s.lower()
RECURSIVE Lower(_)
Lower(s) ==
    IF s = "" THEN ""
    ELSE LowerChar(SubSeq(s, 1, 1)) \o Lower(Drop(s, 2))

\* s.split(sep)
RECURSIVE Split(_, _)
Split(s, sep) ==
    LET i == Find(s, sep, 1)
    IN  IF i = 0 THEN << s >>
        ELSE << SubSeq(s, 1, i - 1) >> \o Split(Drop(s, i + Len(sep)), sep)

\* s.split(sep, 1)
Split1(s, sep) ==
    LET i == Find(s, sep, 1)
    IN  IF i = 0 THEN << s >>
        ELSE << SubSeq(s, 1, i - 1), Drop(s, i + Len(sep)) >>

\* s.strip() for the whitespace git prints: space, tab, newline
IsSpace(c) == c \in { " ", "\t", "\n" }

RECURSIVE LStrip(_)
LStrip(s) ==
    IF s # "" /\ IsSpace(SubSeq(s, 1, 1)) THEN LStrip(Drop(s, 2)) ELSE s

RECURSIVE RStrip(_)
RStrip(s) ==
    IF s # "" /\ IsSpace(SubSeq(s, Len(s), Len(s)))
    THEN RStrip(SubSeq(s, 1, Len(s) - 1)) ELSE s

Strip(s) == LStrip(RStrip(s))

\* the regular expression class \w
IsWordChar(c) ==
    \/ Contains(LowerCase, c)
    \/ Contains(UpperCase, c)
    \/ Contains(Digits, c)
    \/ c = "_"

\* the longest run of \w characters at the start of s
RECURSIVE WordPrefix(_)
WordPrefix(s) ==
    IF s # "" /\ IsWordChar(SubSeq(s, 1, 1))
    THEN SubSeq(s, 1, 1) \o WordPrefix(Drop(s, 2))
    ELSE ""

\* ------------------------------------------------------------------------
\* pathlib.Path

\* the components of s between separators, empty ones dropped
RECURSIVE NonEmpty(_)
NonEmpty(seq) ==
    IF seq = << >> THEN << >>
    ELSE IF Head(seq) = "" THEN NonEmpty(Tail(seq))
    ELSE << Head(seq) >> \o NonEmpty(Tail(seq))

\* Path(p).parts of a repository-relative path
PathParts(p) == NonEmpty(Split(p, "/"))

\* Path(p).name
PathName(p) ==
    LET parts == PathParts(p)
    IN  IF parts = << >> THEN "" ELSE parts[Len(parts)]

\* Path(p).stem: the name without its last suffix
PathStem(p) ==
    LET name == PathName(p)
        i == RFind(name, ".")
    IN  IF 1 < i /\ i < Len(name) THEN SubSeq(name, 1, i - 1) ELSE name

\* ------------------------------------------------------------------------
\* The staged index git reports on.  git prints the staged paths once each, in
\* byte order, so an index is a set of positions of PATHS with a status each.

PATHS == <<
    "My_Service_Integration_Layer/handler.py",
    "README.md",
    "deploy/k8s.yaml",
    "docs/testing.md",
    "notes/draft.",
    "src/api/routes.py",
    "src/auth/oauth.py",
    "src/misc.py",
    "tests/test_auth.py" >>

STATUSES == { "A", "M", "D" }

DIFFS == {
    "",
    "+def handle_oauth_callback(request):\n+    return request.code\n",
    "+# fix crash: resolve the bug\n+    raise ValueError(msg)\n",
    "+# add new endpoint: class, function, feature\n",
    "-export function login(user) {\n+function login(user, opts) {\n",
    " def run():\n-  x = 1\n+    x = 1\n",
    "+    cache[key] = query(key)\n",
    "--- a/api.js\n+++ b/new_feature.js\n@@ -1,3 +1,2 @@\n fix bug\n-@deprecated export class Api\n++ speed, more speed\n",
    " // the C++ class Parser is semi-public API\n",
    "+bump lodash to 4.17.21\n" }

\* the most files staged at once
MaxFiles == 2

\* ------------------------------------------------------------------------
\* DiffAnalyzer.SCOPE_PATTERNS, in dict order.  Each pattern is searched with
\* re.search and is an alternation of literals, behind ".*" where it has one:
\* it matches a path exactly when the path contains one of the literals.

SCOPE_PATTERNS == <<
    [ literals |-> << "/auth", "/login", "/oauth" >>,           scope |-> "auth" ],
    [ literals |-> << "/api", "/endpoints", "/routes" >>,       scope |-> "api" ],
    [ literals |-> << "/database", "migrations" >>,             scope |-> "database" ],
    [ literals |-> << "/test/", "/tests/" >>,                   scope |-> "test" ],
    [ literals |-> << "/ui", "/components", "/views" >>,        scope |-> "ui" ],
    [ literals |-> << "/doc/", "/docs/" >>,                     scope |-> "docs" ],
    [ literals |-> << "/config", "/settings" >>,                scope |-> "config" ],
    [ literals |-> << ".github/" >>,                            scope |-> "ci" ],
    [ literals |-> << "Dockerfile", "docker-compose" >>,        scope |-> "docker" ],
    [ literals |-> << "/deploy", "/infra", "/terraform" >>,     scope |-> "ops" ] >>

\* the directories infer_scope never uses as a scope
GENERIC_DIRS == { "src", "lib", "app" }

\* potential_scope[:20]
ScopeMaxLen == 20

\* re.search(pattern, path)
PatternMatches(pattern, path) ==
    \E k \in 1 .. Len(pattern.literals) : Contains(path, pattern.literals[k])

\* the inner loop of infer_scope: the scope of the first pattern that matches
\* file['path'].lower(), None when no pattern matches
PatternScope(path) ==
    LET lowered == Lower(path)
        hits == { k \in 1 .. Len(SCOPE_PATTERNS) : PatternMatches(SCOPE_PATTERNS[k], lowered) }
    IN  IF hits = {} THEN None
        ELSE Some(SCOPE_PATTERNS[CHOOSE k \in hits : \A j \in hits : k <= j].scope)

\* the paths of the model
PATH_SET == { PATHS[k] : k \in 1 .. Len(PATHS) }

\* the scope the inner loop finds, worked out once for each path of the model
PATTERN_SCOPE == [ p \in PATH_SET |-> PatternScope(p) ]

\* the list scopes after the first loop of infer_scope
RECURSIVE PatternScopes(_)
PatternScopes(fs) ==
    IF fs = << >> THEN << >>
    ELSE LET s == PATTERN_SCOPE[Head(fs).path]
         IN  (IF s = None THEN << >> ELSE << CHOOSE x \in s : TRUE >>)
                 \o PatternScopes(Tail(fs))

\* scopes.count(x)
Count(seq, x) == Cardinality({ i \in 1 .. Len(seq) : seq[i] = x })

\* a variant that forgets the cut to 20 characters, which C8 tells from Truncate
TruncateNothing(potential_scope) == potential_scope

\* potential_scope[:20]
Truncate(potential_scope) == Take(potential_scope, ScopeMaxLen)

\* whether the second loop of infer_scope returns at this file
HasUsableDir(path) ==
    LET parts == PathParts(path)
    IN  Len(parts) > 1 /\ parts[1] \notin GENERIC_DIRS

\* the second loop of infer_scope: the first directory of the first file that
\* has one outside src, lib, app
DirectoryScope(fs) ==
    LET usable == { i \in 1 .. Len(fs) : HasUsableDir(fs[i].path) }
    IN  IF usable = {} THEN None
        ELSE LET i == CHOOSE k \in usable : \A j \in usable : k <= j
             IN  Some(Truncate(PathParts(fs[i].path)[1]))

\* max(set(scopes), key=scopes.count): max returns the first element of greatest
\* count in the iteration order of the set, which for a set of str is fixed by
\* the hash seed of the process.  Every most frequent scope is a possible value.
MostCommon(scopes) ==
    { s \in { scopes[i] : i \in 1 .. Len(scopes) } :
        \A j \in 1 .. Len(scopes) : Count(scopes, scopes[j]) <= Count(scopes, s) }

\* infer_scope(files): the values it can return
infer_scope(fs) ==
    LET scopes == PatternScopes(fs)
    IN  IF scopes = << >> THEN { DirectoryScope(fs) }
        ELSE { Some(s) : s \in MostCommon(scopes) }

\* ------------------------------------------------------------------------
\* infer_type

\* DiffAnalyzer.TYPE_KEYWORDS, in dict order
TYPE_KEYWORDS == <<
    [ type |-> "feat",
      keywords |-> << "add", "create", "implement", "introduce", "new",
                      "class", "function", "feature", "endpoint", "component" >> ],
    [ type |-> "fix",
      keywords |-> << "fix", "bug", "issue", "error", "crash", "correct",
                      "resolve", "patch", "repair" >> ],
    [ type |-> "refactor",
      keywords |-> << "refactor", "restructure", "reorganize", "extract",
                      "rename", "move", "cleanup", "simplify" >> ],
    [ type |-> "perf",
      keywords |-> << "optimize", "performance", "faster", "speed", "cache",
                      "index", "query", "efficient" >> ],
    [ type |-> "style",
      keywords |-> << "format", "lint", "prettier", "whitespace", "indent" >> ],
    [ type |-> "test",
      keywords |-> << "test", "spec", "coverage", "mock", "fixture" >> ],
    [ type |-> "docs",
      keywords |-> << "readme", "documentation", "comment", "docstring" >> ],
    [ type |-> "build",
      keywords |-> << "package.json", "requirements.txt", "dependencies",
                      "dependency", "upgrade", "bump" >> ] >>

\* the extensions of the documentation fast path
DOC_EXTENSIONS == { ".md", ".txt", ".rst" }

\* type_scores['feat'] += 5
NewFileBonus == 5

\* type_scores['refactor'] += 2
DeletionBonus == 2

\* the confidence of the two fast paths, 0.9
FastPathConfidence == 9

\* the confidence of the chore default, 0.3
DefaultConfidence == 3

\* best_type[1] / 10 and the cap 1.0, in tenths
ConfidenceCap == 10

\* f['path'].lower(), worked out once for each path of the model
LOWERED_PATH == [ p \in PATH_SET |-> Lower(p) ]

\* a variant that takes every staged file for a new one, which C16 tells from
\* has_new_files
has_new_files_any_status(fs) == \E i \in 1 .. Len(fs) : fs[i].status \in STATUSES

\* any(f['status'] == 'A' for f in files)
has_new_files(fs) == \E i \in 1 .. Len(fs) : fs[i].status = "A"

\* any(f['status'] == 'D' for f in files)
has_deletions(fs) == \E i \in 1 .. Len(fs) : fs[i].status = "D"

\* all('test' in f['path'].lower() for f in files)
only_tests(fs) == \A i \in 1 .. Len(fs) : Contains(LOWERED_PATH[fs[i].path], "test")

\* all(f['path'].lower().endswith(('.md', '.txt', '.rst')) for f in files)
only_docs(fs) ==
    \A i \in 1 .. Len(fs) : \E ext \in DOC_EXTENSIONS : EndsWith(LOWERED_PATH[fs[i].path], ext)

\* a variant that takes the file header for an added line, which C12 tells
\* from AddedLinesLower
AddedLinesLowerWithHeader(d) ==
    LET lines == Split(d, "\n")
        added == SelectSeq(lines, LAMBDA line : StartsWith(line, "+"))
    IN  [ i \in 1 .. Len(added) |-> Lower(added[i]) ]

\* the list added_lines, lowered: every use of it is line.lower()
AddedLinesLower(d) ==
    LET lines == Split(d, "\n")
        added == SelectSeq(lines, LAMBDA line : StartsWith(line, "+") /\ ~StartsWith(line, "+++"))
    IN  [ i \in 1 .. Len(added) |-> Lower(added[i]) ]

\* how many times the keyword loop runs type_scores[commit_type] += 1
KeywordScore(keywords, lowered) ==
    Cardinality({ kl \in (1 .. Len(keywords)) \X (1 .. Len(lowered)) :
                    Contains(lowered[kl[2]], keywords[kl[1]]) })

\* type_scores after the keyword loop: a defaultdict holds a key once it was
\* added to, and keeps its keys in the order they were first added to
RECURSIVE KeywordScores(_, _)
KeywordScores(table, lowered) ==
    IF table = << >> THEN << >>
    ELSE LET n == KeywordScore(Head(table).keywords, lowered)
         IN  (IF n = 0 THEN << >> ELSE << [ type |-> Head(table).type, score |-> n ] >>)
                 \o KeywordScores(Tail(table), lowered)

\* type_scores after the keyword loop, which reads the diff alone, worked out
\* once for each diff of the model
KEYWORD_SCORES == [ d \in DIFFS |-> KeywordScores(TYPE_KEYWORDS, AddedLinesLower(d)) ]

\* type_scores[type] += n
AddScore(scores, type, n) ==
    IF \E i \in 1 .. Len(scores) : scores[i].type = type
    THEN [ i \in 1 .. Len(scores) |->
             IF scores[i].type = type
             THEN [ scores[i] EXCEPT !.score = @ + n ]
             ELSE scores[i] ]
    ELSE Append(scores, [ type |-> type, score |-> n ])

\* a variant that rewards a deletion even beside a new file, which C13 tells
\* from StatusAdjusted
StatusAdjustedForAnyDeletion(keyword, fs) ==
    LET with_new == IF has_new_files(fs)
                    THEN AddScore(keyword, "feat", NewFileBonus) ELSE keyword
    IN  IF has_deletions(fs)
        THEN AddScore(with_new, "refactor", DeletionBonus) ELSE with_new

\* "Adjust scores based on file status"
StatusAdjusted(keyword, fs) ==
    LET with_new == IF has_new_files(fs)
                    THEN AddScore(keyword, "feat", NewFileBonus) ELSE keyword
    IN  IF has_deletions(fs) /\ ~has_new_files(fs)
        THEN AddScore(with_new, "refactor", DeletionBonus) ELSE with_new

\* type_scores when infer_type reaches "Get best guess"
TypeScores(fs, d) == StatusAdjusted(KEYWORD_SCORES[d], fs)

\* max(type_scores.items(), key=lambda x: x[1]): the first item of greatest score
BestType(scores) ==
    LET best == { i \in 1 .. Len(scores) :
                    \A j \in 1 .. Len(scores) : scores[j].score <= scores[i].score }
    IN  scores[CHOOSE i \in best : \A j \in best : i <= j]

\* a variant that forgets the cap at 1.0, which C1 tells from Confidence
ConfidenceUncapped(score) == score

\* min(best_type[1] / 10, 1.0), in tenths
Confidence(score) == Min(score, ConfidenceCap)

\* a variant whose default carries no confidence, which C11 tells from BestGuess
BestGuessUnscored(scores) ==
    IF scores = << >>
    THEN [ type |-> "chore", confidence |-> 0 ]
    ELSE [ type |-> BestType(scores).type,
           confidence |-> Confidence(BestType(scores).score) ]

\* "Get best guess": what infer_type returns for the scores it collected
BestGuess(scores) ==
    IF scores = << >>
    THEN [ type |-> "chore", confidence |-> DefaultConfidence ]
    ELSE [ type |-> BestType(scores).type,
           confidence |-> Confidence(BestType(scores).score) ]

\* the scored path of infer_type, from "Analyze diff content" on
ScoredType(fs, d) == BestGuess(TypeScores(fs, d))

\* whether infer_type returns on a fast path
FastPath(fs) == only_tests(fs) \/ only_docs(fs)

\* a variant that tries the documentation fast path first, which C9 tells from
\* infer_type
infer_type_docs_first(fs, d) ==
    IF only_docs(fs) THEN [ type |-> "docs", confidence |-> FastPathConfidence ]
    ELSE IF only_tests(fs) THEN [ type |-> "test", confidence |-> FastPathConfidence ]
    ELSE ScoredType(fs, d)

\* a variant without the documentation fast path, which C10 tells from
\* infer_type
infer_type_without_docs_path(fs, d) ==
    IF only_tests(fs) THEN [ type |-> "test", confidence |-> FastPathConfidence ]
    ELSE ScoredType(fs, d)

\* infer_type(files, diff)
infer_type(fs, d) ==
    IF only_tests(fs) THEN [ type |-> "test", confidence |-> FastPathConfidence ]
    ELSE IF only_docs(fs) THEN [ type |-> "docs", confidence |-> FastPathConfidence ]
    ELSE ScoredType(fs, d)

\* ------------------------------------------------------------------------
\* generate_description

\* the definition keywords of added_patterns, in list order: each pattern is
\* \+.*KEYWORD (\w+)
ADDED_PATTERNS == << "def ", "function ", "class ", "const " >>

\* matches[:3]
MaxEntities == 3

\* the match of \+.*KEYWORD (\w+) in one line: "." does not cross a newline and
\* ".*" is greedy, so the group is the word after the last KEYWORD that follows
\* the first "+" of the line and has a word character behind it
LineEntity(line, keyword) ==
    LET plus == Find(line, "+", 1)
        hits == { q \in (plus + 1) .. (Len(line) - Len(keyword)) :
                    /\ SubSeq(line, q, q + Len(keyword) - 1) = keyword
                    /\ IsWordChar(SubSeq(line, q + Len(keyword), q + Len(keyword))) }
    IN  IF plus = 0 \/ hits = {} THEN None
        ELSE LET q == CHOOSE i \in hits : \A j \in hits : j <= i
             IN  Some(WordPrefix(Drop(line, q + Len(keyword))))

\* re.findall(pattern, diff)
RECURSIVE FindAllLines(_, _)
FindAllLines(lines, keyword) ==
    IF lines = << >> THEN << >>
    ELSE LET e == LineEntity(Head(lines), keyword)
         IN  (IF e = None THEN << >> ELSE << CHOOSE x \in e : TRUE >>)
                 \o FindAllLines(Tail(lines), keyword)

FindAll(keyword, d) == FindAllLines(Split(d, "\n"), keyword)

\* the list entities after the loop over added_patterns
RECURSIVE Entities(_, _)
Entities(patterns, d) ==
    IF patterns = << >> THEN << >>
    ELSE LET matches == FindAll(Head(patterns), d)
         IN  SubSeq(matches, 1, Min(MaxEntities, Len(matches)))
                 \o Entities(Tail(patterns), d)

\* entities, which is read off the diff alone, worked out once for each diff of
\* the model
ENTITIES == [ d \in DIFFS |-> Entities(ADDED_PATTERNS, d) ]

\* diff.lower(), worked out once for each diff of the model
LOWERED_DIFF == [ d \in DIFFS |-> Lower(d) ]

\* str(len(files)) for the file counts of the model
IntToStr(n) ==
    IF n < 10 THEN SubSeq(Digits, n + 1, n + 1)
    ELSE SubSeq(Digits, (n \div 10) + 1, (n \div 10) + 1) \o SubSeq(Digits, (n % 10) + 1, (n % 10) + 1)

\* a variant that never says "add", which C19 tells from DefaultDescription
DefaultDescriptionAlwaysUpdate(fs) ==
    IF Len(fs) = 1
    THEN "update " \o PathStem(fs[1].path)
    ELSE "update " \o IntToStr(Len(fs)) \o " files"

\* the default descriptions at the end of generate_description
DefaultDescription(fs) ==
    LET action == IF has_new_files(fs) THEN "add" ELSE "update"
    IN  IF Len(fs) = 1
        THEN action \o " " \o PathStem(fs[1].path)
        ELSE action \o " " \o IntToStr(Len(fs)) \o " files"

\* generate_description(files, diff, commit_type)
generate_description(fs, d, type) ==
    LET entities == ENTITIES[d]
        lowered == LOWERED_DIFF[d]
    IN  IF type = "feat" /\ entities # << >> THEN "add " \o entities[1]
        ELSE IF type = "fix" THEN
            IF Contains(lowered, "null") /\ Contains(lowered, "check")
            THEN "prevent null pointer exception"
            ELSE IF Contains(lowered, "error") THEN "fix error handling"
            ELSE "fix bug"
        ELSE IF type = "refactor" THEN
            IF entities # << >> THEN "extract " \o entities[1] \o " logic"
            ELSE "restructure code"
        ELSE IF type = "perf" THEN
            IF Contains(lowered, "cache") THEN "add caching"
            ELSE IF Contains(lowered, "index") THEN "optimize database queries"
            ELSE "improve performance"
        ELSE IF type = "docs" THEN "update documentation"
        ELSE IF type = "test" THEN
            IF entities # << >> THEN "add tests for " \o entities[1]
            ELSE "add tests"
        ELSE DefaultDescription(fs)

\* ------------------------------------------------------------------------
\* is_breaking_change

\* breaking_indicators, in list order.  removed: the pattern is \-.*LITERAL;
\* otherwise it is the literal alone.  All are searched with re.IGNORECASE.
BREAKING_INDICATORS == <<
    [ removed |-> TRUE,  literal |-> "public ",         reason |-> "removed public API" ],
    [ removed |-> TRUE,  literal |-> "export ",         reason |-> "removed exports" ],
    [ removed |-> FALSE, literal |-> "breaking change", reason |-> "explicitly marked" ],
    [ removed |-> TRUE,  literal |-> "@deprecated",     reason |-> "removed deprecated feature" ] >>

\* re.search(r'\-.*LITERAL', line, re.IGNORECASE): a "-" with the literal
\* somewhere behind it on the same line
DashThenLiteral(line, literal) ==
    LET dash == Find(line, "-", 1)
    IN  dash # 0 /\ Find(Lower(line), literal, dash + 1) # 0

\* re.search(pattern, diff, re.IGNORECASE)
IndicatorMatches(indicator, d) ==
    IF indicator.removed
    THEN LET lines == Split(d, "\n")
         IN  \E i \in 1 .. Len(lines) : DashThenLiteral(lines[i], indicator.literal)
    ELSE Contains(Lower(d), indicator.literal)

\* the indicators that match, worked out once for each diff of the model
MATCHING_INDICATORS ==
    [ d \in DIFFS |->
        { k \in 1 .. Len(BREAKING_INDICATORS) : IndicatorMatches(BREAKING_INDICATORS[k], d) } ]

\* a variant that returns True without a reason, which C2 tells from
\* is_breaking_change
is_breaking_change_without_reason(d) ==
    [ breaking |-> MATCHING_INDICATORS[d] # {}, reason |-> None ]

\* a variant that lets the last matching indicator give the reason, which C15
\* tells from is_breaking_change
is_breaking_change_last_match(d) ==
    LET hits == MATCHING_INDICATORS[d]
    IN  IF hits = {} THEN [ breaking |-> FALSE, reason |-> None ]
        ELSE [ breaking |-> TRUE,
               reason |-> Some(BREAKING_INDICATORS[CHOOSE k \in hits : \A j \in hits : j <= k].reason) ]

\* is_breaking_change(diff)
is_breaking_change(d) ==
    LET hits == MATCHING_INDICATORS[d]
    IN  IF hits = {} THEN [ breaking |-> FALSE, reason |-> None ]
        ELSE [ breaking |-> TRUE,
               reason |-> Some(BREAKING_INDICATORS[CHOOSE k \in hits : \A j \in hits : k <= j].reason) ]

\* ------------------------------------------------------------------------
\* get_staged_changes

\* one entry of files for a line of git diff --staged --name-status
ParseNameStatus(line) ==
    LET parts == Split1(line, "\t")
    IN  [ path |-> IF Len(parts) > 1 THEN parts[2] ELSE "", status |-> parts[1] ]

\* the loop of get_staged_changes over files_output.strip().split('\n')
RECURSIVE ParseLines(_)
ParseLines(lines) ==
    IF lines = << >> THEN << >>
    ELSE (IF Head(lines) = "" THEN << >> ELSE << ParseNameStatus(Head(lines)) >>)
             \o ParseLines(Tail(lines))

\* a variant without the early return on empty output, which C3 tells from
\* get_staged_changes
get_staged_changes_unchecked(out, d, stats) ==
    Some([ files |-> ParseLines(Split(Strip(out), "\n")),
           diff |-> d,
           stats |-> stats ])

\* get_staged_changes(): None when git printed no file, else the dict
get_staged_changes(out, d, stats) ==
    IF out = "" THEN None
    ELSE Some([ files |-> ParseLines(Split(Strip(out), "\n")),
                diff |-> d,
                stats |-> stats ])

\* ------------------------------------------------------------------------
\* git's output for an index

\* stdout of git diff --staged --name-status for an index
RECURSIVE NameStatusText(_, _, _)
NameStatusText(idx, status, k) ==
    IF k > Len(PATHS) THEN ""
    ELSE (IF k \in idx THEN status[k] \o "\t" \o PATHS[k] \o "\n" ELSE "")
             \o NameStatusText(idx, status, k + 1)

\* stdout of git diff --staged --stat for an index
StatText(idx) ==
    IF idx = {} THEN "" ELSE " " \o IntToStr(Cardinality(idx)) \o " files changed\n"

\* ------------------------------------------------------------------------
\* The state machine: one run of analyze-diff.py after another on one index.

NOT_IN_REPOSITORY == [ error |-> "Not in a git repository" ]

NO_STAGED_CHANGES == [ error |-> "No staged changes found. Use: git add <files>" ]

locals == << files, diff, scope, commit_type, type_scores, confidence,
             description, is_breaking, breaking_reason >>

git == << git_root, files_output, diff_output, stats_output >>

\* the class attributes, which every instance and every caller shares
class_tables == << scope_patterns, type_keywords >>

\* main() is not running: analyze is called on its own
MainIdle ==
    /\ args = None /\ main_pc = None /\ commit_msg = None /\ response = None
    /\ stdout = << >> /\ exit_code = None /\ git_commit = None

\* no state file, no call made, no process inside update_state
IntegrationIdle ==
    /\ ccmp_file = [ exists |-> FALSE, valid |-> FALSE, value |-> << >> ]
    /\ call = [ op |-> "none" ]
    /\ procs = << >>

\* an empty project, no session command run, no objectives loaded
SessionIdle ==
    /\ dirs = {}
    /\ sessions_file = [ exists |-> FALSE, valid |-> FALSE, value |-> << >> ]
    /\ session = [ cmd |-> "none" ]
    /\ objectives = [ outcome |-> "none" ]

\* no commits, no analysis made
TddIdle ==
    /\ history = << >>
    /\ lenient = TRUE
    /\ tdd_analysis = [ outcome |-> "none" ]

\* version.py is not running
VersionIdle ==
    /\ commit_subjects = << >>
    /\ commit_analyzer = [ breaking_commits |-> << >>, feature_commits |-> << >>,
                           fix_commits |-> << >>, other_commits |-> << >> ]
    /\ current = [ major |-> 0, minor |-> 0, patch |-> 0 ]
    /\ next_version = [ bump_type |-> "none" ]
    /\ version_pc = "idle"

\* sync-marketplace.py is not running, and no catalog exists
SyncIdle ==
    /\ extended_file = [ exists |-> FALSE, valid |-> FALSE, value |-> << >> ]
    /\ output_file = [ exists |-> FALSE, valid |-> FALSE, value |-> << >> ]
    /\ sync = [ outcome |-> "none" ]

\* nothing outside main runs
OutsideMainIdle == IntegrationIdle /\ SessionIdle /\ TddIdle /\ VersionIdle /\ SyncIdle

\* nothing outside DiffAnalyzer runs
ElsewhereIdle == MainIdle /\ OutsideMainIdle

\* DiffAnalyzer(): outside a repository every git command fails and _run_git
\* returns ""; with nothing staged git prints nothing
Init ==
    \E inside \in BOOLEAN, idx \in SUBSET (1 .. Len(PATHS)), d \in DIFFS :
        \E status \in [ idx -> STATUSES ] :
            /\ Cardinality(idx) <= MaxFiles
            /\ ~inside => idx = {}
            /\ idx = {} => d = ""
            /\ scope_patterns = SCOPE_PATTERNS
            /\ type_keywords = TYPE_KEYWORDS
            /\ git_root = inside
            /\ files_output = NameStatusText(idx, status, 1)
            /\ diff_output = d
            /\ stats_output = StatText(idx)
            /\ pc = "start"
            /\ files = None /\ diff = None /\ scope = None /\ commit_type = None
            /\ type_scores = None
            /\ confidence = None /\ description = None
            /\ is_breaking = None /\ breaking_reason = None
            /\ result = None
            /\ run = "first"
            /\ first = None
            /\ ElsewhereIdle

\* analyze: if not self.git_root
NotInRepository ==
    /\ pc = "start"
    /\ ~git_root
    /\ result' = NOT_IN_REPOSITORY
    /\ pc' = "returned"
    /\ UNCHANGED << elsewhere, class_tables, git, locals, run, first >>

\* analyze: changes = self.get_staged_changes(); if not changes
NoStagedChanges ==
    /\ pc = "start"
    /\ git_root
    /\ get_staged_changes(files_output, diff_output, stats_output) = None
    /\ result' = NO_STAGED_CHANGES
    /\ pc' = "returned"
    /\ UNCHANGED << elsewhere, class_tables, git, locals, run, first >>

\* analyze: files = changes['files']; diff = changes['diff']
GetStagedChanges ==
    /\ pc = "start"
    /\ git_root
    /\ \E changes \in get_staged_changes(files_output, diff_output, stats_output) :
        /\ files' = changes.files
        /\ diff' = changes.diff
    /\ pc' = "infer_scope"
    /\ UNCHANGED << elsewhere, class_tables, git, scope, commit_type, type_scores, confidence,
                    description, is_breaking, breaking_reason, result, run, first >>

\* analyze: scope = self.infer_scope(files)
InferScope ==
    /\ pc = "infer_scope"
    /\ \E s \in infer_scope(files) : scope' = s
    /\ pc' = "infer_type"
    /\ UNCHANGED << elsewhere, class_tables, git, files, diff, commit_type, type_scores, confidence,
                    description, is_breaking, breaking_reason, result, run, first >>

\* analyze: commit_type, confidence = self.infer_type(files, diff), when
\* infer_type returns on a fast path
InferType ==
    /\ pc = "infer_type"
    /\ FastPath(files)
    /\ commit_type' = infer_type(files, diff).type
    /\ confidence' = infer_type(files, diff).confidence
    /\ pc' = "generate_description"
    /\ UNCHANGED << elsewhere, class_tables, git, files, diff, scope, type_scores, description,
                    is_breaking, breaking_reason, result, run, first >>

\* infer_type: "Analyze diff content", the keyword loop
ScoreKeywords ==
    /\ pc = "infer_type"
    /\ ~FastPath(files)
    /\ type_scores' = KEYWORD_SCORES[diff]
    /\ pc' = "adjust_scores"
    /\ UNCHANGED << elsewhere, class_tables, git, files, diff, scope, commit_type, confidence, description,
                    is_breaking, breaking_reason, result, run, first >>

\* infer_type: "Adjust scores based on file status"
AdjustScores ==
    /\ pc = "adjust_scores"
    /\ type_scores' = StatusAdjusted(type_scores, files)
    /\ pc' = "best_guess"
    /\ UNCHANGED << elsewhere, class_tables, git, files, diff, scope, commit_type, confidence, description,
                    is_breaking, breaking_reason, result, run, first >>

\* infer_type: "Get best guess", and analyze takes what it returns
GetBestGuess ==
    /\ pc = "best_guess"
    /\ commit_type' = BestGuess(type_scores).type
    /\ confidence' = BestGuess(type_scores).confidence
    /\ pc' = "generate_description"
    /\ UNCHANGED << elsewhere, class_tables, git, files, diff, scope, type_scores, description,
                    is_breaking, breaking_reason, result, run, first >>

\* analyze: description = self.generate_description(files, diff, commit_type)
GenerateDescription ==
    /\ pc = "generate_description"
    /\ description' = generate_description(files, diff, commit_type)
    /\ pc' = "is_breaking_change"
    /\ UNCHANGED << elsewhere, class_tables, git, files, diff, scope, commit_type, type_scores, confidence,
                    is_breaking, breaking_reason, result, run, first >>

\* analyze: is_breaking, breaking_reason = self.is_breaking_change(diff)
IsBreakingChange ==
    /\ pc = "is_breaking_change"
    /\ is_breaking' = is_breaking_change(diff).breaking
    /\ breaking_reason' = is_breaking_change(diff).reason
    /\ pc' = "return"
    /\ UNCHANGED << elsewhere, class_tables, git, files, diff, scope, commit_type, type_scores, confidence,
                    description, result, run, first >>

\* analyze: the dict it returns
Return ==
    /\ pc = "return"
    /\ result' = [ type |-> commit_type,
                   scope |-> scope,
                   description |-> description,
                   confidence |-> confidence,
                   breaking |-> is_breaking,
                   breaking_reason |-> breaking_reason,
                   files_changed |-> Len(files),
                   stats |-> stats_output ]
    /\ pc' = "returned"
    /\ UNCHANGED << elsewhere, class_tables, git, locals, run, first >>

\* analyze-diff.py is started again, in a new process, on the same index
Rerun ==
    /\ pc = "returned"
    /\ run = "first"
    /\ first' = Some(result)
    /\ run' = "second"
    /\ pc' = "start"
    /\ files' = None /\ diff' = None /\ scope' = None /\ commit_type' = None
    /\ type_scores' = None
    /\ confidence' = None /\ description' = None
    /\ is_breaking' = None /\ breaking_reason' = None
    /\ result' = None
    /\ UNCHANGED << elsewhere, class_tables, git >>

Next ==
    \/ NotInRepository
    \/ NoStagedChanges
    \/ GetStagedChanges
    \/ InferScope
    \/ InferType
    \/ ScoreKeywords
    \/ AdjustScores
    \/ GetBestGuess
    \/ GenerateDescription
    \/ IsBreakingChange
    \/ Return
    \/ Rerun

Spec == Init /\ [][Next]_vars

\* ------------------------------------------------------------------------
\* Callers that classify their own files and diff at the same time, in one
\* process: each has its own locals, and all of them read the same class
\* attributes.  The variables of analyze hold one value for each caller.

NumThreads == 2

THREADS == 1 .. NumThreads

\* what the callers classify
CALLER_INPUTS == {
    [ files |-> << [ status |-> "A", path |-> "src/auth/oauth.py" ] >>,
      diff  |-> "+def handle_oauth_callback(request):\n+    return request.code\n" ],
    [ files |-> << [ status |-> "A", path |-> "src/api/routes.py" ],
                   [ status |-> "A", path |-> "src/auth/oauth.py" ] >>,
      diff  |-> "" ],
    [ files |-> << [ status |-> "M", path |-> "src/misc.py" ] >>,
      diff  |-> "+# fix crash: resolve the bug\n+    raise ValueError(msg)\n" ],
    [ files |-> << [ status |-> "M", path |-> "src/misc.py" ] >>,
      diff  |-> "+# add new endpoint: class, function, feature\n" ] }

\* the inner loop of infer_scope, reading the patterns the class holds now
PatternScopeReading(patterns, path) ==
    LET lowered == Lower(path)
        hits == { k \in 1 .. Len(patterns) : PatternMatches(patterns[k], lowered) }
    IN  IF hits = {} THEN None
        ELSE Some(patterns[CHOOSE k \in hits : \A j \in hits : k <= j].scope)

\* the list scopes after the first loop of infer_scope
RECURSIVE PatternScopesReading(_, _)
PatternScopesReading(patterns, fs) ==
    IF fs = << >> THEN << >>
    ELSE LET s == PatternScopeReading(patterns, Head(fs).path)
         IN  (IF s = None THEN << >> ELSE << CHOOSE x \in s : TRUE >>)
                 \o PatternScopesReading(patterns, Tail(fs))

\* infer_scope(files), reading self.SCOPE_PATTERNS: the values it can return
infer_scope_reading(patterns, fs) ==
    LET scopes == PatternScopesReading(patterns, fs)
    IN  IF scopes = << >> THEN { DirectoryScope(fs) }
        ELSE { Some(s) : s \in MostCommon(scopes) }

\* infer_type(files, diff), reading self.TYPE_KEYWORDS
infer_type_reading(keywords, fs, d) ==
    IF only_tests(fs) THEN [ type |-> "test", confidence |-> FastPathConfidence ]
    ELSE IF only_docs(fs) THEN [ type |-> "docs", confidence |-> FastPathConfidence ]
    ELSE BestGuess(StatusAdjusted(KeywordScores(keywords, AddedLinesLower(d)), fs))

\* every caller is about to classify what it was given
InitInterleaved ==
    \E input \in [ THREADS -> CALLER_INPUTS ] :
        /\ scope_patterns = SCOPE_PATTERNS
        /\ type_keywords = TYPE_KEYWORDS
        /\ git_root = TRUE
        /\ files_output = "" /\ diff_output = "" /\ stats_output = ""
        /\ pc = [ t \in THREADS |-> "infer_scope" ]
        /\ files = [ t \in THREADS |-> input[t].files ]
        /\ diff = [ t \in THREADS |-> input[t].diff ]
        /\ scope = [ t \in THREADS |-> None ]
        /\ commit_type = [ t \in THREADS |-> None ]
        /\ type_scores = [ t \in THREADS |-> None ]
        /\ confidence = [ t \in THREADS |-> None ]
        /\ description = [ t \in THREADS |-> None ]
        /\ is_breaking = [ t \in THREADS |-> None ]
        /\ breaking_reason = [ t \in THREADS |-> None ]
        /\ result = [ t \in THREADS |-> None ]
        /\ run = "first"
        /\ first = None
        /\ ElsewhereIdle

\* scope = self.infer_scope(files), by caller t
ThreadInferScope(t) ==
    /\ pc[t] = "infer_scope"
    /\ \E s \in infer_scope_reading(scope_patterns, files[t]) :
          scope' = [ scope EXCEPT ![t] = s ]
    /\ pc' = [ pc EXCEPT ![t] = "infer_type" ]
    /\ UNCHANGED << elsewhere, class_tables, git, files, diff, commit_type, type_scores, confidence,
                    description, is_breaking, breaking_reason, result, run, first >>

\* a variant that uses up the first entry of the shared table, which C20 tells
\* from ThreadInferType
ThreadInferTypeConsuming(t) ==
    /\ pc[t] = "infer_type"
    /\ commit_type' =
          [ commit_type EXCEPT ![t] = infer_type_reading(type_keywords, files[t], diff[t]).type ]
    /\ confidence' =
          [ confidence EXCEPT ![t] = infer_type_reading(type_keywords, files[t], diff[t]).confidence ]
    /\ type_keywords' = IF type_keywords = << >> THEN << >> ELSE Tail(type_keywords)
    /\ pc' = [ pc EXCEPT ![t] = "generate_description" ]
    /\ UNCHANGED << elsewhere, scope_patterns, git, files, diff, scope, type_scores, description,
                    is_breaking, breaking_reason, result, run, first >>

\* commit_type, confidence = self.infer_type(files, diff), by caller t
ThreadInferType(t) ==
    /\ pc[t] = "infer_type"
    /\ commit_type' =
          [ commit_type EXCEPT ![t] = infer_type_reading(type_keywords, files[t], diff[t]).type ]
    /\ confidence' =
          [ confidence EXCEPT ![t] = infer_type_reading(type_keywords, files[t], diff[t]).confidence ]
    /\ pc' = [ pc EXCEPT ![t] = "generate_description" ]
    /\ UNCHANGED << elsewhere, class_tables, git, files, diff, scope, type_scores, description,
                    is_breaking, breaking_reason, result, run, first >>

\* description = self.generate_description(files, diff, commit_type), by caller t
ThreadGenerateDescription(t) ==
    /\ pc[t] = "generate_description"
    /\ description' =
          [ description EXCEPT ![t] = generate_description(files[t], diff[t], commit_type[t]) ]
    /\ pc' = [ pc EXCEPT ![t] = "is_breaking_change" ]
    /\ UNCHANGED << elsewhere, class_tables, git, files, diff, scope, commit_type, type_scores,
                    confidence, is_breaking, breaking_reason, result, run, first >>

\* is_breaking, breaking_reason = self.is_breaking_change(diff), by caller t
ThreadIsBreakingChange(t) ==
    /\ pc[t] = "is_breaking_change"
    /\ is_breaking' = [ is_breaking EXCEPT ![t] = is_breaking_change(diff[t]).breaking ]
    /\ breaking_reason' = [ breaking_reason EXCEPT ![t] = is_breaking_change(diff[t]).reason ]
    /\ pc' = [ pc EXCEPT ![t] = "return" ]
    /\ UNCHANGED << elsewhere, class_tables, git, files, diff, scope, commit_type, type_scores,
                    confidence, description, result, run, first >>

\* the classification caller t gets back
ThreadReturn(t) ==
    /\ pc[t] = "return"
    /\ result' = [ result EXCEPT ![t] =
                     [ type |-> commit_type[t],
                       scope |-> scope[t],
                       description |-> description[t],
                       confidence |-> confidence[t],
                       breaking |-> is_breaking[t],
                       breaking_reason |-> breaking_reason[t],
                       files_changed |-> Len(files[t]) ] ]
    /\ pc' = [ pc EXCEPT ![t] = "returned" ]
    /\ UNCHANGED << elsewhere, class_tables, git, files, diff, scope, commit_type, type_scores,
                    confidence, description, is_breaking, breaking_reason, run, first >>

NextInterleaved ==
    \E t \in THREADS :
        \/ ThreadInferScope(t)
        \/ ThreadInferType(t)
        \/ ThreadGenerateDescription(t)
        \/ ThreadIsBreakingChange(t)
        \/ ThreadReturn(t)

SpecInterleaved == InitInterleaved /\ [][NextInterleaved]_vars

\* ------------------------------------------------------------------------
\* main() of analyze-diff.py: parse the flags, analyze, print, and commit
\* when asked to.

\* the staged indexes main is run on, as sets of positions of PATHS
MAIN_INDEXES == { {}, { 2 }, { 7 }, { 8 }, { 2, 8 } }

\* the staged diffs main is run on
MAIN_DIFFS == {
    "",
    "+def handle_oauth_callback(request):\n+    return request.code\n",
    "-export function login(user) {\n+function login(user, opts) {\n" }

\* what the user can type at the prompt
RESPONSES == { "y", "Y", "n", "", "yes" }

\* the state of DiffAnalyzer and of its callers
analyzer_vars == << class_tables, git, locals, pc, result, run, first >>

\* everything main does not touch
outside_main == << integration_vars, session_vars, tdd_vars, version_vars, sync_vars >>

\* the commit message main builds from the result
CommitMsg(r) ==
    r.type
        \o (IF r.scope # None /\ r.scope # Some("")
            THEN "(" \o (CHOOSE x \in r.scope : TRUE) \o ")" ELSE "")
        \o (IF r.breaking THEN "!" ELSE "")
        \o ": " \o r.description

\* validate.py: the types that the header pattern allows
VALID_TYPES == << "feat", "fix", "refactor", "perf", "style", "test", "docs", "build", "ops", "chore" >>

\* [a-z0-9-]
IsScopeChar(c) == Contains(LowerCase, c) \/ Contains(Digits, c) \/ c = "-"

\* the longest description that the header pattern allows
MaxDescription == 100

\* what follows the type when the header starts with one of the types, else None
AfterCommitType(header) ==
    LET matching == { i \in 1 .. Len(VALID_TYPES) : StartsWith(header, VALID_TYPES[i]) }
    IN  IF matching = {} THEN None
        ELSE LET i == CHOOSE i \in matching : \A j \in matching : i <= j
             IN  Some(Drop(header, Len(VALID_TYPES[i]) + 1))

\* (\([a-z0-9-]+\))? : what follows the scope, the text itself without one
AfterCommitScope(rest) ==
    LET close == Find(rest, ")", 1) IN
    IF /\ StartsWith(rest, "(")
       /\ close > 2
       /\ \A i \in 2 .. close - 1 : IsScopeChar(SubSeq(rest, i, i))
    THEN Drop(rest, close + 1)
    ELSE rest

\* !?
AfterBang(rest) == IF StartsWith(rest, "!") THEN Drop(rest, 2) ELSE rest

\* re.match(pattern, header)
HeaderMatches(header) ==
    /\ AfterCommitType(header) # None
    /\ LET rest == AfterBang(AfterCommitScope(CHOOSE x \in AfterCommitType(header) : TRUE))
       IN  /\ StartsWith(rest, ": ")
           /\ Len(rest) - 2 >= 1
           /\ Len(rest) - 2 <= MaxDescription

\* validate_commit(message): (is_valid, error_message)
validate_commit(message) ==
    LET header == Split(message, "\n")[1] IN
    IF StartsWith(header, "Merge branch") \/ StartsWith(header, "Revert") \/ header = "chore: init"
    THEN [ valid |-> TRUE, error |-> None ]
    ELSE IF ~HeaderMatches(header)
    THEN [ valid |-> FALSE, error |-> Some("Invalid format") ]
    ELSE LET desc == Split1(header, ": ")[2] IN
         IF Contains(UpperCase, SubSeq(desc, 1, 1))
         THEN [ valid |-> FALSE, error |-> Some("Description should start with lowercase") ]
         ELSE IF EndsWith(desc, ".")
         THEN [ valid |-> FALSE, error |-> Some("Description should not end with period") ]
         ELSE [ valid |-> TRUE, error |-> None ]

\* the lines of the report that depend on the result
Report(r) ==
    << "Files changed", r.stats, "Suggested commit:", "  " \o CommitMsg(r) >>
        \o (IF r.confidence < 5 THEN << "Low confidence - please review and adjust" >> ELSE << >>)
        \o (IF r.breaking
            THEN << "Possible breaking change detected: " \o (CHOOSE x \in r.breaking_reason : TRUE) >>
            ELSE << >>)

\* analyze-diff.py is started with some flags on some index
InitMain ==
    \E inside \in BOOLEAN, idx \in MAIN_INDEXES, d \in MAIN_DIFFS, flags \in [ json : BOOLEAN, commit : BOOLEAN ] :
        \E status \in [ idx -> STATUSES ] :
            /\ ~inside => idx = {}
            /\ idx = {} => d = ""
            /\ scope_patterns = SCOPE_PATTERNS
            /\ type_keywords = TYPE_KEYWORDS
            /\ git_root = inside
            /\ files_output = NameStatusText(idx, status, 1)
            /\ diff_output = d
            /\ stats_output = StatText(idx)
            /\ pc = "start"
            /\ files = None /\ diff = None /\ scope = None /\ commit_type = None
            /\ type_scores = None
            /\ confidence = None /\ description = None
            /\ is_breaking = None /\ breaking_reason = None
            /\ result = None
            /\ run = "first"
            /\ first = None
            /\ args = flags
            /\ main_pc = "analyze"
            /\ commit_msg = None /\ response = None
            /\ stdout = << >> /\ exit_code = None /\ git_commit = None
            /\ OutsideMainIdle

\* main: if 'error' in result: print, sys.exit(1)
MainError ==
    /\ main_pc = "analyze"
    /\ pc = "returned"
    /\ "error" \in DOMAIN result
    /\ stdout' = << "Error: " \o result.error >>
    /\ exit_code' = 1
    /\ main_pc' = "exited"
    /\ UNCHANGED << analyzer_vars, outside_main, args, commit_msg, response, git_commit >>

\* main: if args.json: print(json.dumps(result)), sys.exit(0)
MainJson ==
    /\ main_pc = "analyze"
    /\ pc = "returned"
    /\ "error" \notin DOMAIN result
    /\ args.json
    /\ stdout' = << [ json |-> result ] >>
    /\ exit_code' = 0
    /\ main_pc' = "exited"
    /\ UNCHANGED << analyzer_vars, outside_main, args, commit_msg, response, git_commit >>

\* main: the pretty output and the commit message, when --commit is not given
MainSuggest ==
    /\ main_pc = "analyze"
    /\ pc = "returned"
    /\ "error" \notin DOMAIN result
    /\ ~args.json
    /\ ~args.commit
    /\ commit_msg' = CommitMsg(result)
    /\ stdout' = Report(result) \o << "To commit:", "  git commit -m\"" \o CommitMsg(result) \o "\"" >>
    /\ exit_code' = 0
    /\ main_pc' = "exited"
    /\ UNCHANGED << analyzer_vars, outside_main, args, response, git_commit >>

\* main: the pretty output and the commit message, up to the prompt of --commit
MainPrompt ==
    /\ main_pc = "analyze"
    /\ pc = "returned"
    /\ "error" \notin DOMAIN result
    /\ ~args.json
    /\ args.commit
    /\ commit_msg' = CommitMsg(result)
    /\ stdout' = Report(result) \o << "Execute this commit? [y/N]: " >>
    /\ main_pc' = "input"
    /\ UNCHANGED << analyzer_vars, outside_main, args, response, exit_code, git_commit >>

\* a main that commits whatever is typed at the prompt
MainConfirmAnyAnswer ==
    /\ main_pc = "input"
    /\ \E typed \in RESPONSES :
          /\ response' = typed
          /\ git_commit' = Some(commit_msg)
          /\ stdout' = Append(stdout, "Committed!")
    /\ exit_code' = 0
    /\ main_pc' = "exited"
    /\ UNCHANGED << analyzer_vars, outside_main, args, commit_msg >>

\* main: response = input(...); if response.lower() == 'y': git commit
MainConfirm ==
    /\ main_pc = "input"
    /\ \E typed \in RESPONSES :
          /\ response' = typed
          /\ IF Lower(typed) = "y"
             THEN /\ git_commit' = Some(commit_msg)
                  /\ stdout' = Append(stdout, "Committed!")
             ELSE /\ git_commit' = git_commit
                  /\ stdout' = stdout \o << "Copy and adjust as needed:",
                                            "  git commit -m\"" \o commit_msg \o "\"" >>
    /\ exit_code' = 0
    /\ main_pc' = "exited"
    /\ UNCHANGED << analyzer_vars, outside_main, args, commit_msg >>

\* main: input() raises EOFError when stdin is closed, and the script dies
MainEndOfInput ==
    /\ main_pc = "input"
    /\ exit_code' = 1
    /\ main_pc' = "exited"
    /\ UNCHANGED << analyzer_vars, outside_main, args, commit_msg, response, stdout, git_commit >>

NextMain ==
    \/ NotInRepository
    \/ NoStagedChanges
    \/ GetStagedChanges
    \/ InferScope
    \/ InferType
    \/ ScoreKeywords
    \/ AdjustScores
    \/ GetBestGuess
    \/ GenerateDescription
    \/ IsBreakingChange
    \/ Return
    \/ MainError
    \/ MainJson
    \/ MainSuggest
    \/ MainPrompt
    \/ MainConfirm
    \/ MainEndOfInput

SpecMain == InitMain /\ [][NextMain]_vars

\* ------------------------------------------------------------------------
\* CCMPIntegration (ccmp_integration.py): the plugins' shared state in
\* .ccmp/state.json.  A dict is a function from its keys; {} is << >>.

\* DiffAnalyzer is not running
AnalyzerIdle ==
    /\ scope_patterns = SCOPE_PATTERNS
    /\ type_keywords = TYPE_KEYWORDS
    /\ git_root = FALSE
    /\ files_output = "" /\ diff_output = "" /\ stats_output = ""
    /\ pc = "idle"
    /\ files = None /\ diff = None /\ scope = None /\ commit_type = None
    /\ type_scores = None
    /\ confidence = None /\ description = None
    /\ is_breaking = None /\ breaking_reason = None
    /\ result = None
    /\ run = "first"
    /\ first = None

\* everything CCMPIntegration does not touch
outside_integration == << analyzer_vars, main_vars, session_vars, tdd_vars, version_vars, sync_vars >>

\* nothing outside CCMPIntegration runs
OutsideIntegrationIdle == AnalyzerIdle /\ MainIdle /\ SessionIdle /\ TddIdle /\ VersionIdle /\ SyncIdle

\* dict.get(k, default)
DictGet(d, k, default) == IF k \in DOMAIN d THEN d[k] ELSE default

\* d[k] = v
DictSet(d, k, v) == [ x \in DOMAIN d \cup { k } |-> IF x = k THEN v ELSE d[x] ]

\* d.update(u)
DictUpdate(d, u) == [ k \in DOMAIN d \cup DOMAIN u |-> IF k \in DOMAIN u THEN u[k] ELSE d[k] ]

\* the plugins that call the API
PLUGINS == { "claude-context-manager", "tdd-workflow" }

\* the updates the plugins pass: every dict over the keys active and cycles_today
UPDATES ==
    { << >> }
        \cup { [ active |-> a ] : a \in BOOLEAN }
        \cup { [ cycles_today |-> c ] : c \in { 4, 5 } }
        \cup { [ active |-> a, cycles_today |-> c ] : a \in BOOLEAN, c \in { 4, 5 } }

\* datetime.utcnow().isoformat() + "Z"
NOW == "2026-01-01T00:00:00Z"

\* there is no state file
NO_FILE == [ exists |-> FALSE, valid |-> FALSE, value |-> << >> ]

\* a state file that is not JSON: empty, as open(..., 'w') leaves it
EMPTY_FILE == [ exists |-> TRUE, valid |-> FALSE, value |-> << >> ]

\* a state file holding the JSON of a dict
JsonFile(state) == [ exists |-> TRUE, valid |-> TRUE, value |-> state ]

\* the state that _ensure_state_file writes and _read_state falls back to
DEFAULT_STATE == [ version |-> "1.0.0", last_updated |-> None, plugins |-> << >> ]

\* _read_state: the parsed file, or the default when absent or not JSON
read_state(file) == IF file.exists /\ file.valid THEN file.value ELSE DEFAULT_STATE

\* _write_state: stamp the state and dump it
write_state(state) == JsonFile(DictSet(state, "last_updated", Some(NOW)))

\* _ensure_state_file, as the constructor runs it
ensure_state_file(file) == IF ~file.exists THEN write_state(DEFAULT_STATE) ELSE file

\* state.get("plugins", {}).get(plugin_name, {})
PluginState(state, plugin_name) == DictGet(DictGet(state, "plugins", << >>), plugin_name, << >>)

get_state(file, plugin_name) == PluginState(read_state(file), plugin_name)

is_active(file, plugin_name) == DictGet(get_state(file, plugin_name), "active", FALSE)

\* the state with the plugin's entry set
WithPlugin(state, plugin_name, plugin_state) ==
    DictSet(state, "plugins", DictSet(DictGet(state, "plugins", << >>), plugin_name, plugin_state))

\* update_state between its read and its write: the merged state
Merged(state, plugin_name, updates) ==
    WithPlugin(state, plugin_name, DictUpdate(PluginState(state, plugin_name), updates))

\* an update_state that replaces the plugin's state by the updates
update_state_replacing(file, plugin_name, updates) ==
    write_state(WithPlugin(read_state(file), plugin_name, updates))

update_state(file, plugin_name, updates) ==
    write_state(Merged(read_state(file), plugin_name, updates))

clear_state(file, plugin_name) ==
    LET state == read_state(file) IN
    IF "plugins" \in DOMAIN state /\ plugin_name \in DOMAIN state.plugins
    THEN write_state(WithPlugin(state, plugin_name, [ installed |-> TRUE, active |-> FALSE ]))
    ELSE file

\* CCMPIntegration() in a project: the state file exists afterwards; it may
\* have been left empty by a writer that died
InitIntegration ==
    /\ ccmp_file \in { ensure_state_file(NO_FILE), ensure_state_file(EMPTY_FILE) }
    /\ call = [ op |-> "__init__" ]
    /\ procs = << >>
    /\ OutsideIntegrationIdle

UpdateState ==
    \E plugin_name \in PLUGINS, updates \in UPDATES :
        /\ ccmp_file' = update_state(ccmp_file, plugin_name, updates)
        /\ call' = [ op |-> "update_state", plugin |-> plugin_name, updates |-> updates ]
        /\ UNCHANGED << outside_integration, procs >>

SetActive ==
    \E plugin_name \in PLUGINS, active \in BOOLEAN :
        /\ ccmp_file' = update_state(ccmp_file, plugin_name, [ active |-> active ])
        /\ call' = [ op |-> "set_active", plugin |-> plugin_name, active |-> active ]
        /\ UNCHANGED << outside_integration, procs >>

ClearState ==
    \E plugin_name \in PLUGINS :
        /\ ccmp_file' = clear_state(ccmp_file, plugin_name)
        /\ call' = [ op |-> "clear_state", plugin |-> plugin_name ]
        /\ UNCHANGED << outside_integration, procs >>

GetState ==
    \E plugin_name \in PLUGINS :
        /\ call' = [ op |-> "get_state", plugin |-> plugin_name,
                     returned |-> get_state(ccmp_file, plugin_name) ]
        /\ UNCHANGED << outside_integration, ccmp_file, procs >>

IsActive ==
    \E plugin_name \in PLUGINS :
        /\ call' = [ op |-> "is_active", plugin |-> plugin_name,
                     returned |-> is_active(ccmp_file, plugin_name) ]
        /\ UNCHANGED << outside_integration, ccmp_file, procs >>

NextIntegration ==
    \/ UpdateState
    \/ SetActive
    \/ ClearState
    \/ GetState
    \/ IsActive

SpecIntegration == InitIntegration /\ [][NextIntegration]_vars

\* ------------------------------------------------------------------------
\* Two processes inside update_state on the same .ccmp/state.json: the context
\* monitor (context_monitor.py run_check) and a session checkpoint (session.py
\* cmd_checkpoint).  update_state reads the file, merges in memory, and
\* _write_state opens the file for writing, which empties it, before the dump
\* fills it.

PROCESSES == { "context-monitor", "session-checkpoint" }

\* datetime.now().isoformat()
LAST_SCAN == "2026-01-01T00:00:00"

\* run_check: the update of claude-context-manager for a health score
MonitorUpdates(overall_score) ==
    [ health_score |-> overall_score, last_scan |-> LAST_SCAN, critical_files |-> << >> ]

\* cmd_checkpoint: the update of tdd-workflow for a phase, after reading tdd_state
CheckpointUpdates(tdd_state, tdd_phase) ==
    [ active |-> TRUE,
      cycles_today |-> IF tdd_phase = "GREEN"
                       THEN DictGet(tdd_state, "cycles_today", 0) + 1
                       ELSE DictGet(tdd_state, "cycles_today", 0),
      current_phase |-> tdd_phase,
      discipline_score |-> 100 ]

\* the state files the two processes start on: fresh, or after earlier runs
SHARED_FILES == {
    write_state(DEFAULT_STATE),
    write_state(WithPlugin(DEFAULT_STATE, "tdd-workflow", CheckpointUpdates(<< >>, "GREEN"))),
    write_state(WithPlugin(DEFAULT_STATE, "claude-context-manager", MonitorUpdates(40))) }

\* a process that is about to call update_state
Calling(plugin_name, updates) ==
    [ pc |-> "read", plugin |-> plugin_name, updates |-> updates, state |-> << >> ]

\* both processes have built their CCMPIntegration and their updates
InitConcurrent ==
    /\ ccmp_file \in SHARED_FILES
    /\ \E overall_score \in { 40, 100 }, tdd_phase \in { "RED", "GREEN", "REFACTOR" } :
          procs = [ p \in PROCESSES |->
                      IF p = "context-monitor"
                      THEN Calling("claude-context-manager", MonitorUpdates(overall_score))
                      ELSE Calling("tdd-workflow",
                                   CheckpointUpdates(get_state(ccmp_file, "tdd-workflow"), tdd_phase)) ]
    /\ call = [ op |-> "none" ]
    /\ OutsideIntegrationIdle

\* update_state: state = self._read_state()
ProcRead(p) ==
    /\ procs[p].pc = "read"
    /\ procs' = [ procs EXCEPT ![p].pc = "open", ![p].state = read_state(ccmp_file) ]
    /\ UNCHANGED << outside_integration, ccmp_file, call >>

\* update_state merges in memory; _write_state stamps the state and opens the
\* file with mode 'w'
ProcOpen(p) ==
    /\ procs[p].pc = "open"
    /\ procs' = [ procs EXCEPT
                    ![p].pc = "dump",
                    ![p].state = write_state(Merged(procs[p].state, procs[p].plugin,
                                                    procs[p].updates)).value ]
    /\ ccmp_file' = EMPTY_FILE
    /\ UNCHANGED << outside_integration, call >>

\* _write_state: json.dump and the close of the file
ProcDump(p) ==
    /\ procs[p].pc = "dump"
    /\ procs' = [ procs EXCEPT ![p].pc = "done" ]
    /\ ccmp_file' = JsonFile(procs[p].state)
    /\ UNCHANGED << outside_integration, call >>

NextConcurrent ==
    \E p \in PROCESSES :
        \/ ProcRead(p)
        \/ ProcOpen(p)
        \/ ProcDump(p)

SpecConcurrent == InitConcurrent /\ [][NextConcurrent]_vars

\* ------------------------------------------------------------------------
\* WorkItemsScanner.load_session_objectives (work_items.py) reads
\* .sessions/state.json.  A JSON value carries its type: t is one of null,
\* bool, number, string, array, object, and v is the Python value.

JNull == [ t |-> "null" ]
JBool(b) == [ t |-> "bool", v |-> b ]
JNum(n) == [ t |-> "number", v |-> n ]
JStr(str) == [ t |-> "string", v |-> str ]
JArr(seq) == [ t |-> "array", v |-> seq ]
JObj(dict) == [ t |-> "object", v |-> dict ]

\* the longest objectives array in the file
MaxItems == 2

\* the null, the booleans, two numbers and two strings
JSON_ATOMS == { JNull, JBool(FALSE), JBool(TRUE), JNum(0), JNum(5), JStr(""), JStr("ab") }

\* what an objectives array holds
JSON_ITEMS == JSON_ATOMS \cup { JObj([ text |-> JStr("ship it"), completed |-> JBool(TRUE) ]) }

JSON_ARRAYS == { JArr(items) : items \in UNION { [ 1..n -> JSON_ITEMS ] : n \in 0..MaxItems } }

\* the values of the objectives key
OBJECTIVES_VALUES == JSON_ATOMS \cup JSON_ARRAYS \cup { JObj(<< >>), JObj([ first |-> JStr("ab") ]) }

\* the values of the file
STATE_VALUES ==
    JSON_ATOMS
        \cup { JArr(<< >>), JArr(<< JStr("ab") >>) }
        \cup { JObj(<< >>), JObj([ branch |-> JStr("main") ]) }
        \cup { JObj([ objectives |-> o ]) : o \in OBJECTIVES_VALUES }

\* the contents of .sessions/state.json
SESSIONS_FILES == { NO_FILE, EMPTY_FILE } \cup { JsonFile(value) : value \in STATE_VALUES }

\* the state of everything but the session commands and the status report
outside_session == << analyzer_vars, main_vars, integration_vars, tdd_vars, version_vars, sync_vars >>

\* nothing outside the session commands and the status report runs
OutsideSessionIdle == AnalyzerIdle /\ MainIdle /\ IntegrationIdle /\ TddIdle /\ VersionIdle /\ SyncIdle

\* bool(value)
Truthy(value) ==
    CASE value.t = "null" -> FALSE
      [] value.t = "bool" -> value.v
      [] value.t = "number" -> value.v # 0
      [] value.t = "string" -> value.v # ""
      [] value.t = "array" -> value.v # << >>
      [] value.t = "object" -> DOMAIN value.v # {}

\* iter(value) of a str or a list, as a sequence of values
Iterated(value) ==
    IF value.t = "string"
    THEN [ i \in 1..Len(value.v) |-> JStr(SubSeq(value.v, i, i)) ]
    ELSE value.v

Returns(value) == [ outcome |-> "returned", value |-> value ]

Raises(exception) == [ outcome |-> "raised", exception |-> exception ]

\* [{"text": obj, "completed": False} for obj in objectives]
AsDicts(value) ==
    JArr([ i \in 1..Len(Iterated(value)) |->
              JObj([ text |-> Iterated(value)[i], completed |-> JBool(FALSE) ]) ])

\* the lines after objectives = state.get("objectives", [])
ConvertObjectives(value) ==
    IF ~Truthy(value) THEN Returns(value)
    ELSE CASE value.t \in { "array", "string" } ->
                IF Iterated(value)[1].t = "string" THEN Returns(AsDicts(value)) ELSE Returns(value)
           [] value.t = "object" -> Returns(JArr(<< >>))
           [] OTHER -> Raises("TypeError")

load_session_objectives(file) ==
    IF ~file.exists THEN Returns(JArr(<< >>))
    ELSE IF ~file.valid THEN Returns(JArr(<< >>))
    ELSE IF file.value.t # "object" THEN Raises("AttributeError")
    ELSE ConvertObjectives(DictGet(file.value.v, "objectives", JArr(<< >>)))

\* a project with some .sessions/state.json, or none
InitWorkItems ==
    /\ sessions_file \in SESSIONS_FILES
    /\ dirs = IF sessions_file.exists THEN { ".sessions" } ELSE {}
    /\ session = [ cmd |-> "none" ]
    /\ objectives = [ outcome |-> "none" ]
    /\ OutsideSessionIdle

LoadSessionObjectives ==
    /\ objectives' = load_session_objectives(sessions_file)
    /\ UNCHANGED << outside_session, dirs, sessions_file, session >>

NextWorkItems == LoadSessionObjectives

SpecWorkItems == InitWorkItems /\ [][NextWorkItems]_vars

\* ------------------------------------------------------------------------
\* The session commands: init_session.py and session.py (start, checkpoint,
\* status, resume), run one after the other in a project directory, with the
\* integration library importable.

\* the branch argument of a command
BRANCHES == { "main", "feature/login" }

\* the --objective argument of session start
OBJECTIVE_ARGS == { "fix login", "fix login, add tests" }

\* datetime.now().isoformat()
STARTED_AT == "2026-01-01T09:00:00"

\* [obj.strip() for obj in args.objective.split(',')]
ParseObjectives(objective) ==
    [ i \in 1 .. Len(Split(objective, ",")) |-> Strip(Split(objective, ",")[i]) ]

\* "tdd" if args.tdd else "normal"
Mode(tdd) == IF tdd THEN "tdd" ELSE "normal"

\* SessionIntegration.start_session: the update of session-management
StartSessionUpdates(branch, objective_list, mode) ==
    [ active |-> TRUE, current_session |-> branch, branch |-> branch,
      mode |-> mode, objectives |-> objective_list ]

\* cmd_start: the state dict, as the JSON that json.dump writes
SessionState(branch, objective_list, mode) ==
    JObj([ branch |-> JStr(branch),
           objectives |-> JArr([ i \in 1 .. Len(objective_list) |-> JStr(objective_list[i]) ]),
           started_at |-> JStr(STARTED_AT),
           mode |-> JStr(mode) ])

\* cmd_start: the update of .ccmp/state.json, skipped when the file is not JSON
StartCcmpFile(file, branch, objective_list, mode) ==
    IF file.exists /\ ~file.valid THEN file
    ELSE JsonFile(DictSet(IF file.exists THEN file.value ELSE << >>,
                          "session-management",
                          [ active |-> TRUE, branch |-> branch,
                            objectives |-> objective_list, mode |-> mode ]))

\* check_session_initialized
check_session_initialized == ".session" \in dirs \/ ".sessions" \in dirs

\* the state files a project with a .ccmp directory starts with
CCMP_FILES == {
    NO_FILE,
    write_state(DEFAULT_STATE),
    write_state(WithPlugin(DEFAULT_STATE, "session-management",
                           StartSessionUpdates("main", << "fix login" >>, "tdd"))) }

\* a project directory, a git repository or not, with or without .ccmp
InitSessions ==
    /\ \E git_repository \in BOOLEAN, ccmp \in BOOLEAN :
          /\ dirs = (IF git_repository THEN { ".git" } ELSE {}) \cup (IF ccmp THEN { ".ccmp" } ELSE {})
          /\ ccmp_file \in IF ccmp THEN CCMP_FILES ELSE { NO_FILE }
    /\ sessions_file = NO_FILE
    /\ session = [ cmd |-> "none" ]
    /\ objectives = [ outcome |-> "none" ]
    /\ call = [ op |-> "none" ]
    /\ procs = << >>
    /\ AnalyzerIdle
    /\ MainIdle
    /\ TddIdle
    /\ VersionIdle
    /\ SyncIdle

\* everything the session commands do not touch
outside_commands == << analyzer_vars, main_vars, tdd_vars, version_vars, sync_vars, call, procs, objectives >>

\* init_session.py main
InitSession ==
    \E force \in BOOLEAN :
        /\ IF ".git" \notin dirs
           THEN /\ session' = [ cmd |-> "init_session", outcome |-> "returned", returned |-> 1 ]
                /\ dirs' = dirs
           ELSE IF ".session" \in dirs /\ ~force
           THEN /\ session' = [ cmd |-> "init_session", outcome |-> "returned", returned |-> 1 ]
                /\ dirs' = dirs
           ELSE /\ session' = [ cmd |-> "init_session", outcome |-> "returned", returned |-> 0 ]
                /\ dirs' = dirs \cup { ".session", ".git/sessions" }
        /\ UNCHANGED << outside_commands, sessions_file, ccmp_file >>

\* session.py start <branch> --objective ... [--tdd]
SessionStart ==
    \E branch \in BRANCHES, objective \in OBJECTIVE_ARGS, tdd \in BOOLEAN :
        LET started == [ cmd |-> "start", branch |-> branch,
                         objectives |-> ParseObjectives(objective), mode |-> Mode(tdd) ]
        IN
        /\ IF ~check_session_initialized
           THEN /\ session' = started @@ [ outcome |-> "returned", returned |-> 1 ]
                /\ UNCHANGED << sessions_file, ccmp_file >>
           ELSE IF ".git" \notin dirs
           THEN \* git checkout and git checkout -b both fail
                /\ session' = started @@ [ outcome |-> "returned", returned |-> 1 ]
                /\ UNCHANGED << sessions_file, ccmp_file >>
           ELSE IF ".sessions" \notin dirs
           THEN \* open(".sessions/state.json", 'w')
                /\ session' = started @@ [ outcome |-> "raised", exception |-> "FileNotFoundError" ]
                /\ UNCHANGED << sessions_file, ccmp_file >>
           ELSE /\ sessions_file' = JsonFile(SessionState(branch, ParseObjectives(objective), Mode(tdd)))
                /\ ccmp_file' = IF ".ccmp" \in dirs
                                THEN StartCcmpFile(ccmp_file, branch, ParseObjectives(objective), Mode(tdd))
                                ELSE ccmp_file
                /\ session' = started @@ [ outcome |-> "returned", returned |-> 0 ]
        /\ UNCHANGED << outside_commands, dirs >>

\* session.py checkpoint, without --commit and --tdd-phase
SessionCheckpoint ==
    /\ IF ~check_session_initialized
       THEN /\ session' = [ cmd |-> "checkpoint", outcome |-> "returned", returned |-> 1 ]
            /\ dirs' = dirs
       ELSE \* CheckpointManager(): mkdir(parents=True, exist_ok=True)
            /\ session' = [ cmd |-> "checkpoint", outcome |-> "returned", returned |-> 0 ]
            /\ dirs' = dirs \cup { ".sessions", ".sessions/checkpoints" }
    /\ UNCHANGED << outside_commands, sessions_file, ccmp_file >>

\* session.py status
SessionStatus ==
    /\ IF ~check_session_initialized
       THEN /\ session' = [ cmd |-> "status", outcome |-> "returned", returned |-> 1 ]
            /\ UNCHANGED << dirs, ccmp_file >>
       ELSE \* CCMPIntegration() creates .ccmp/state.json when it is missing
            /\ dirs' = dirs \cup { ".ccmp" }
            /\ ccmp_file' = ensure_state_file(ccmp_file)
            /\ session' = [ cmd |-> "status", outcome |-> "returned", returned |-> 0,
                            status |-> IF is_active(ccmp_file', "session-management")
                                       THEN "Active" ELSE "No active session" ]
    /\ UNCHANGED << outside_commands, sessions_file >>

\* session.py resume, without a branch argument
SessionResume ==
    /\ IF ~check_session_initialized \/ ".git" \notin dirs
       THEN /\ session' = [ cmd |-> "resume", outcome |-> "returned", returned |-> 1 ]
            /\ UNCHANGED << dirs, ccmp_file >>
       ELSE LET created == ensure_state_file(ccmp_file)
                session_state == get_state(created, "session-management")
            IN
            /\ dirs' = dirs \cup { ".ccmp" }
            /\ IF is_active(created, "session-management")
               THEN /\ ccmp_file' = update_state(created, "session-management",
                                        StartSessionUpdates("main",
                                            DictGet(session_state, "objectives", << >>),
                                            DictGet(session_state, "mode", "normal")))
                    /\ session' = [ cmd |-> "resume", outcome |-> "returned", returned |-> 0,
                                    status |-> "SESSION STARTED" ]
               ELSE /\ ccmp_file' = created
                    /\ session' = [ cmd |-> "resume", outcome |-> "returned", returned |-> 0,
                                    status |-> "No active session found" ]
    /\ UNCHANGED << outside_commands, sessions_file >>

NextSessions ==
    \/ InitSession
    \/ SessionStart
    \/ SessionCheckpoint
    \/ SessionStatus
    \/ SessionResume

SpecSessions == InitSessions /\ [][NextSessions]_vars

\* ------------------------------------------------------------------------
\* TDDAnalyzer.analyze_tdd_cycle_timing (tdd_analyzer.py).  A commit carries
\* its subject, whether it touches test files and source files (what
\* get_commit_files finds), and its date: the minute it was made and the
\* zone offset that git prints after it.

\* the most commits in the week
MaxCommits == 3

\* the commit subjects
MESSAGES == { "add failing test", "implement login" }

\* the zone offsets of --date=iso
OFFSETS == { "+0000", "-0500" }

\* the commits that can be made at a minute
CommitsAt(minute) ==
    { [ hash |-> minute, message |-> m, files |-> [ test |-> t, source |-> src ],
        date |-> [ minute |-> minute, offset |-> o ] ] :
        m \in MESSAGES, t \in BOOLEAN, src \in BOOLEAN, o \in OFFSETS }

\* the histories of exactly n commits, one commit a minute, oldest first
RECURSIVE HistoriesOf(_)
HistoriesOf(n) ==
    IF n = 0 THEN { << >> }
    ELSE { Append(h, c) : h \in HistoriesOf(n - 1), c \in CommitsAt(n) }

\* the histories of at most max commits, one commit a minute, oldest first
HistoriesUpTo(max) == UNION { HistoriesOf(n) : n \in 0 .. max }

\* everything TDDAnalyzer does not touch
outside_tdd == << analyzer_vars, main_vars, integration_vars, session_vars, version_vars, sync_vars >>

\* nothing outside TDDAnalyzer runs
OutsideTddIdle == AnalyzerIdle /\ MainIdle /\ IntegrationIdle /\ SessionIdle /\ VersionIdle /\ SyncIdle

RECURSIVE Reversed(_)
Reversed(seq) == IF seq = << >> THEN << >> ELSE Append(Reversed(Tail(seq)), Head(seq))

\* get_commits_since: the lines of git log, which lists the newest commit first
get_commits_since(commits) == Reversed(commits)

\* datetime.fromisoformat(date.replace(' ', 'T').split('+')[0]) raises ValueError:
\* a "+hhmm" date is cut to "...T", which no Python parses; a "-hhmm" date
\* stays "...T-hhmm", which Python 3.11 parses and older ones do not
DateFails(date, python311) == StartsWith(date.offset, "+") \/ ~python311

\* current_cycle = {"red": None, "green": None}
NEW_CYCLE == [ red |-> None, green |-> None ]

\* the for loop over the commits
RECURSIVE CycleLoop(_, _, _, _)
CycleLoop(commits, current_cycle, cycles, python311) ==
    IF commits = << >> THEN [ outcome |-> "returned", cycles |-> cycles ]
    ELSE LET commit == Head(commits)
             message == Lower(commit.message)
         IN
         IF commit.files.test /\ ~commit.files.source
         THEN IF Contains(message, "red") \/ Contains(message, "fail") \/ Contains(message, "test")
              THEN IF DateFails(commit.date, python311)
                   THEN [ outcome |-> "raised", exception |-> "ValueError" ]
                   ELSE CycleLoop(Tail(commits),
                                  [ red |-> Some(commit), green |-> current_cycle.green,
                                    red_time |-> commit.date.minute ],
                                  cycles, python311)
              ELSE CycleLoop(Tail(commits), current_cycle, cycles, python311)
         ELSE IF commit.files.source /\ current_cycle.red # None
         THEN IF DateFails(commit.date, python311)
              THEN [ outcome |-> "raised", exception |-> "ValueError" ]
              ELSE CycleLoop(Tail(commits), NEW_CYCLE,
                             Append(cycles,
                                    [ red |-> current_cycle.red, green |-> Some(commit),
                                      red_time |-> current_cycle.red_time,
                                      green_time |-> commit.date.minute,
                                      duration_minutes |-> commit.date.minute - current_cycle.red_time ]),
                             python311)
         ELSE CycleLoop(Tail(commits), current_cycle, cycles, python311)

\* the durations of the cycles
Durations(cycles) == [ i \in 1 .. Len(cycles) |-> cycles[i].duration_minutes ]

RECURSIVE SumOf(_)
SumOf(seq) == IF seq = << >> THEN 0 ELSE Head(seq) + SumOf(Tail(seq))

\* the analysis dict; the average is kept as the sum and the count it divides
Analysis(cycles) ==
    LET durations == Durations(cycles)
        values == { durations[i] : i \in 1 .. Len(durations) }
    IN  [ outcome |-> "returned",
          cycles |-> cycles,
          total_cycles |-> Len(cycles),
          average_cycle_time |-> IF cycles # << >>
                                 THEN [ sum |-> SumOf(durations), count |-> Len(durations) ]
                                 ELSE [ sum |-> 0, count |-> 1 ],
          fastest_cycle |-> IF cycles # << >>
                            THEN Some(CHOOSE d \in values : \A e \in values : d <= e) ELSE None,
          slowest_cycle |-> IF cycles # << >>
                            THEN Some(CHOOSE d \in values : \A e \in values : e <= d) ELSE None ]

analyze_tdd_cycle_timing(commits, python311) ==
    LET looped == CycleLoop(get_commits_since(commits), NEW_CYCLE, << >>, python311) IN
    IF looped.outcome = "raised" THEN looped ELSE Analysis(looped.cycles)

\* TDDAnalyzer() in a repository with some week of commits
InitTdd ==
    /\ history \in HistoriesUpTo(MaxCommits)
    /\ lenient \in BOOLEAN
    /\ tdd_analysis = [ outcome |-> "none" ]
    /\ OutsideTddIdle

AnalyzeTddCycleTiming ==
    /\ tdd_analysis' = analyze_tdd_cycle_timing(history, lenient)
    /\ UNCHANGED << outside_tdd, history, lenient >>

NextTdd == AnalyzeTddCycleTiming

SpecTdd == InitTdd /\ [][NextTdd]_vars

\* ------------------------------------------------------------------------
\* version.py: CommitAnalyzer sorts the commit subjects into four lists and
\* get_next_version bumps the current Version.

\* the most subjects that git log lists
MaxSubjects == 2

\* the subjects of the commits
SUBJECTS == {
    "feat: add login",
    "fix(api): handle null",
    "feat(api)!: drop v1",
    "docs: update readme",
    "wip",
    "fix typo: really!",
    "hello! world: hi",
    "feat(): x" }

\* the versions the run starts from
VERSIONS ==
    { [ major |-> 0, minor |-> 0, patch |-> 0 ],
      [ major |-> 1, minor |-> 2, patch |-> 3 ],
      [ major |-> 0, minor |-> 9, patch |-> 9 ],
      [ major |-> 2, minor |-> 0, patch |-> 0 ] }

\* everything version.py does not touch
outside_version == << analyzer_vars, main_vars, integration_vars, session_vars, tdd_vars, sync_vars >>

\* nothing outside version.py runs
OutsideVersionIdle == AnalyzerIdle /\ MainIdle /\ IntegrationIdle /\ SessionIdle /\ TddIdle /\ SyncIdle

Version(major, minor, patch) == [ major |-> major, minor |-> minor, patch |-> patch ]

bump_major(version) == Version(version.major + 1, 0, 0)

\* a minor bump that keeps the patch number
bump_minor_keeping_patch(version) == Version(version.major, version.minor + 1, version.patch)

bump_minor(version) == Version(version.major, version.minor + 1, 0)

bump_patch(version) == Version(version.major, version.minor, version.patch + 1)

\* '!' in message and ':' in message and message.index('!') < message.index(':')
BangBeforeColon(message) ==
    /\ Contains(message, "!")
    /\ Contains(message, ":")
    /\ Find(message, "!", 1) < Find(message, ":", 1)

\* re.match(r'^(?P<type>\w+)(?:\([^)]+\))?:\s*', message): the type, None without a match
MatchedType(message) ==
    LET type == WordPrefix(message)
        rest == Drop(message, Len(type) + 1)
        close == Find(rest, ")", 1)
    IN  IF type = "" THEN None
        ELSE IF StartsWith(rest, ":") THEN Some(type)
        ELSE IF StartsWith(rest, "(") /\ close > 2 /\ StartsWith(Drop(rest, close + 1), ":")
        THEN Some(type)
        ELSE None

\* _classify_commit: the name of the list the message is appended to
Bucket(message) ==
    IF BangBeforeColon(message) THEN "breaking_commits"
    ELSE IF MatchedType(message) = None THEN "other_commits"
    ELSE IF MatchedType(message) = Some("feat") THEN "feature_commits"
    ELSE IF MatchedType(message) = Some("fix") THEN "fix_commits"
    ELSE "other_commits"

_classify_commit(lists, message) ==
    [ lists EXCEPT ![Bucket(message)] = Append(@, message) ]

\* analyze: for commit in commits: self._classify_commit(commit)
RECURSIVE ClassifyAll(_, _)
ClassifyAll(lists, commits) ==
    IF commits = << >> THEN lists
    ELSE ClassifyAll(_classify_commit(lists, Head(commits)), Tail(commits))

get_bump_type(lists) ==
    IF lists.breaking_commits # << >> THEN "major"
    ELSE IF lists.feature_commits # << >> \/ lists.fix_commits # << >> THEN "minor"
    ELSE "patch"

get_next_version(lists, version) ==
    LET bump_type == get_bump_type(lists) IN
    [ version |-> IF bump_type = "major" THEN bump_major(version)
                  ELSE IF bump_type = "minor" THEN bump_minor(version)
                  ELSE bump_patch(version),
      bump_type |-> bump_type ]

\* version.py has the current version and a new CommitAnalyzer
InitVersion ==
    /\ commit_subjects \in UNION { [ 1 .. n -> SUBJECTS ] : n \in 0 .. MaxSubjects }
    /\ commit_analyzer = [ breaking_commits |-> << >>, feature_commits |-> << >>,
                           fix_commits |-> << >>, other_commits |-> << >> ]
    /\ current \in VERSIONS
    /\ next_version = [ bump_type |-> "none" ]
    /\ version_pc = "start"
    /\ OutsideVersionIdle

\* analyzer.analyze(from_ref)
Analyze ==
    /\ version_pc = "start"
    /\ commit_analyzer' = ClassifyAll(commit_analyzer, commit_subjects)
    /\ version_pc' = "analyzed"
    /\ UNCHANGED << outside_version, commit_subjects, current, next_version >>

\* analyzer.get_next_version(current)
GetNextVersion ==
    /\ version_pc = "analyzed"
    /\ next_version' = get_next_version(commit_analyzer, current)
    /\ version_pc' = "done"
    /\ UNCHANGED << outside_version, commit_subjects, commit_analyzer, current >>

NextVersion ==
    \/ Analyze
    \/ GetNextVersion

SpecVersion == InitVersion /\ [][NextVersion]_vars

\* ------------------------------------------------------------------------
\* sync-marketplace.py: marketplace.json is written from
\* marketplace.extended.json without the extended plugin fields.

\* the most plugins in the extended catalog
MaxPlugins == 2

EXTENDED_PLUGIN_FIELDS == << "featured", "mcpTools", "pluginCount", "pricing", "components" >>

\* the field names of EXTENDED_PLUGIN_FIELDS
ExtendedFieldNames == { EXTENDED_PLUGIN_FIELDS[i] : i \in 1 .. Len(EXTENDED_PLUGIN_FIELDS) }

\* the schema fields of a plugin entry: with a name or without, with a
\* category that is a string or a list
PLUGIN_BASES == {
    [ name |-> "git-commit", version |-> "1.0.0" ],
    [ name |-> "session-management", version |-> "1.0.0", category |-> JStr("productivity") ],
    [ name |-> "git-commit", version |-> "2.0.0", category |-> JArr(<< >>) ],
    [ version |-> "1.0.0" ] }

\* the extended fields of a plugin entry: none, one, all
PLUGIN_EXTENSIONS == {
    << >>,
    [ pricing |-> "free" ],
    [ featured |-> TRUE, mcpTools |-> << "scan" >>, pluginCount |-> 3,
      pricing |-> "free", components |-> [ skills |-> 2 ] ] }

\* the plugin entries of the extended catalog
PLUGIN_ENTRIES == { DictUpdate(base, ext) : base \in PLUGIN_BASES, ext \in PLUGIN_EXTENSIONS }

\* the top-level keys of the extended catalog next to plugins
CATALOG_HEADS == {
    [ name |-> "ccmp", id |-> "ccmp", owner |-> "AnthemFlynn" ],
    [ name |-> "ccmp", owner |-> "AnthemFlynn" ],
    [ id |-> "ccmp", owner |-> "AnthemFlynn" ] }

\* the extended catalogs: a head, with a plugins list or without
CATALOGS ==
    CATALOG_HEADS
        \cup { DictSet(head, "plugins", plugins) :
                 head \in CATALOG_HEADS,
                 plugins \in UNION { [ 1 .. n -> PLUGIN_ENTRIES ] : n \in 0 .. MaxPlugins } }

\* everything sync-marketplace.py does not touch
outside_sync == << analyzer_vars, main_vars, integration_vars, session_vars, tdd_vars, version_vars >>

\* nothing outside sync-marketplace.py runs
OutsideSyncIdle ==
    AnalyzerIdle /\ MainIdle /\ IntegrationIdle /\ SessionIdle /\ TddIdle /\ VersionIdle

\* a sanitize_plugin that leaves the pricing in
sanitize_plugin_keeping_pricing(plugin) ==
    [ k \in DOMAIN plugin \ (ExtendedFieldNames \ { "pricing" }) |-> plugin[k] ]

sanitize_plugin(plugin) ==
    [ k \in DOMAIN plugin \ ExtendedFieldNames |-> plugin[k] ]

\* sys.exit(1) from one of the except clauses
Exit(message) == [ outcome |-> "error", code |-> 1, message |-> message ]

\* [p["name"] for p in plugins] raises KeyError
SomeNameless(plugins) == \E i \in 1 .. Len(plugins) : "name" \notin DOMAIN plugins[i]

\* duplicates = [name for name in set(names) if names.count(name) > 1]
Duplicates(plugins) ==
    { plugins[i].name : i \in { i \in 1 .. Len(plugins) :
          \E j \in 1 .. Len(plugins) : j # i /\ plugins[j].name = plugins[i].name } }

\* categories[cat] raises TypeError for a category that is a list
SomeUnhashableCategory(plugins) ==
    \E i \in 1 .. Len(plugins) :
        "category" \in DOMAIN plugins[i] /\ plugins[i].category.t \in { "array", "object" }

\* sync_marketplace: the output file and the outcome
sync_marketplace(extended_json, output) ==
    IF ~extended_json.exists THEN [ output |-> output, sync |-> Exit("File not found") ]
    ELSE IF ~extended_json.valid THEN [ output |-> output, sync |-> Exit("Invalid JSON") ]
    ELSE LET extended == extended_json.value IN
         IF "plugins" \notin DOMAIN extended
         THEN [ output |-> output, sync |-> Exit("Sync failed: 'plugins'") ]
         ELSE LET sanitized ==
                      DictSet(extended, "plugins",
                              [ i \in 1 .. Len(extended.plugins) |-> sanitize_plugin(extended.plugins[i]) ])
              IN
              IF ~({ "name", "id", "plugins" } \subseteq DOMAIN sanitized)
              THEN [ output |-> output, sync |-> Exit("Sync failed: Invalid marketplace structure") ]
              ELSE IF SomeNameless(sanitized.plugins)
              THEN [ output |-> output, sync |-> Exit("Sync failed: 'name'") ]
              ELSE IF Duplicates(sanitized.plugins) # {}
              THEN [ output |-> output, sync |-> Exit("Sync failed: Duplicate plugin names found") ]
              ELSE IF SomeUnhashableCategory(sanitized.plugins)
              THEN [ output |-> JsonFile(sanitized), sync |-> Exit("Sync failed: unhashable type") ]
              ELSE [ output |-> JsonFile(sanitized), sync |-> [ outcome |-> "complete" ] ]

\* the repository before a run: some extended catalog, some earlier output
InitSync ==
    /\ extended_file \in { NO_FILE, EMPTY_FILE } \cup { JsonFile(catalog) : catalog \in CATALOGS }
    /\ output_file \in { NO_FILE, JsonFile([ name |-> "ccmp", id |-> "ccmp", plugins |-> << >> ]) }
    /\ sync = [ outcome |-> "none" ]
    /\ OutsideSyncIdle

SyncMarketplace ==
    /\ sync.outcome = "none"
    /\ output_file' = sync_marketplace(extended_file, output_file).output
    /\ sync' = sync_marketplace(extended_file, output_file).sync
    /\ UNCHANGED << outside_sync, extended_file >>

NextSync == SyncMarketplace

SpecSync == InitSync /\ [][NextSync]_vars

\* ------------------------------------------------------------------------
\* Properties

\* analyze() returned a classification, not an error
Classified == pc = "returned" /\ "type" \in DOMAIN result

\* scope holds the value of infer_scope
AfterInferScope ==
    \/ pc \in { "infer_type", "adjust_scores", "best_guess", "generate_description",
                "is_breaking_change", "return" }
    \/ Classified

\* commit_type and confidence hold the values of infer_type
AfterInferType ==
    pc \in { "generate_description", "is_breaking_change", "return" } \/ Classified

\* is_breaking and breaking_reason hold the values of is_breaking_change
AfterIsBreakingChange == pc = "return" \/ Classified

\* infer_type takes neither fast path
ScoredPath == ~only_tests(files) /\ ~only_docs(files)

\* C1: the confidence infer_type returns, and the confidence field of the
\* result of analyze, is at least 0.0 and at most 1.0 (0 and 10 tenths).
C1_ConfidenceBounds ==
    /\ AfterInferType => 0 <= confidence /\ confidence <= 10
    /\ Classified => 0 <= result.confidence /\ result.confidence <= 10

\* C1 happens on the scored path with a best score above 10, which the cap cuts
C1_Witness ==
    /\ Classified
    /\ ScoredPath
    /\ TypeScores(files, diff) # << >>
    /\ BestType(TypeScores(files, diff)).score > 10
    /\ result.confidence = 10

\* C2: is_breaking_change returns a reason other than None exactly when it
\* returns True, and so do the breaking fields of the result of analyze.
C2_BreakingReasonIffBreaking ==
    /\ AfterIsBreakingChange => ((breaking_reason # None) <=> (is_breaking = TRUE))
    /\ Classified => ((result.breaking_reason # None) <=> (result.breaking = TRUE))

\* C2 happens when a diff removes an export
C2_Witness ==
    /\ Classified
    /\ result.breaking = TRUE
    /\ result.breaking_reason = Some("removed exports")

\* C3: with no file and no diff analyze ends in the no-staged-changes error;
\* with files and an empty diff it ends in a classification.
C3_EmptyInputFails ==
    /\ (pc = "returned" /\ git_root /\ files_output = "" /\ diff_output = "")
           => result = NO_STAGED_CHANGES
    /\ (pc = "returned" /\ files_output # "" /\ diff_output = "")
           => (Classified /\ "error" \notin DOMAIN result)

\* C3 happens when files are staged and git prints an empty diff
C3_Witness ==
    /\ Classified
    /\ Len(files) > 0
    /\ diff = ""

\* C4: a second run on the same files and diff returns the result of the first.
C4_Deterministic ==
    (pc = "returned" /\ run = "second") => first = Some(result)

\* the types in the order that breaks ties between equal scores
TYPE_PRIORITY ==
    << "feat", "fix", "refactor", "perf", "style", "test", "docs", "build", "chore" >>

\* the score of a type: its entry in type_scores, 0 when it has none
ScoreOf(scores, type) ==
    LET at == { i \in 1 .. Len(scores) : scores[i].type = type }
    IN  IF at = {} THEN 0 ELSE scores[CHOOSE i \in at : TRUE].score

\* the type of greatest score that comes first in TYPE_PRIORITY
FirstInPriority(scores) ==
    LET best == { k \in 1 .. Len(TYPE_PRIORITY) :
                    \A j \in 1 .. Len(TYPE_PRIORITY) :
                        ScoreOf(scores, TYPE_PRIORITY[j]) <= ScoreOf(scores, TYPE_PRIORITY[k]) }
    IN  TYPE_PRIORITY[CHOOSE k \in best : \A j \in best : k <= j]

\* C5: on the scored path infer_type returns the type of greatest score, and of
\* several such types the one that comes first in the priority order.
C5_HighestScoreByPriority ==
    (AfterInferType /\ ScoredPath /\ TypeScores(files, diff) # << >>)
        => commit_type = FirstInPriority(TypeScores(files, diff))

\* the most frequent scope that was met first in file order
FirstSeenMostCommon(scopes) ==
    LET best == { i \in 1 .. Len(scopes) : scopes[i] \in MostCommon(scopes) }
    IN  scopes[CHOOSE i \in best : \A j \in best : i <= j]

\* C6: infer_scope returns the pattern scope that occurs most often, and of
\* several such scopes the one met first in file order.
C6_MostCommonFirstSeen ==
    (AfterInferScope /\ PatternScopes(files) # << >>)
        => scope = Some(FirstSeenMostCommon(PatternScopes(files)))

\* a pattern literal as the documentation reads it: found anywhere in the path
Anywhere(literal) == IF StartsWith(literal, "/") THEN Drop(literal, 2) ELSE literal

\* the scope of the first rule one of whose literals the path contains anywhere
ContainedScope(path) ==
    LET lowered == Lower(path)
        hits == { k \in 1 .. Len(SCOPE_PATTERNS) :
                    \E n \in 1 .. Len(SCOPE_PATTERNS[k].literals) :
                        Contains(lowered, Anywhere(SCOPE_PATTERNS[k].literals[n])) }
    IN  IF hits = {} THEN None
        ELSE Some(SCOPE_PATTERNS[CHOOSE k \in hits : \A j \in hits : k <= j].scope)

CONTAINED_SCOPE == [ p \in PATH_SET |-> ContainedScope(p) ]

RECURSIVE ContainedScopes(_)
ContainedScopes(fs) ==
    IF fs = << >> THEN << >>
    ELSE LET s == CONTAINED_SCOPE[Head(fs).path]
         IN  (IF s = None THEN << >> ELSE << CHOOSE x \in s : TRUE >>)
                 \o ContainedScopes(Tail(fs))

\* C7: each file contributes the scope of the first rule whose pattern occurs
\* anywhere in its path, and infer_scope returns a most frequent contribution.
C7_PatternAnywhereInPath ==
    (AfterInferScope /\ ContainedScopes(files) # << >>)
        => scope \in { Some(s) : s \in MostCommon(ContainedScopes(files)) }

\* the first path segment of each file whose first segment is not generic
FirstSegments(fs) ==
    { PathParts(fs[i].path)[1] : i \in { k \in 1 .. Len(fs) : PathParts(fs[k].path)[1] \notin GENERIC_DIRS } }

\* the length of a scope, 0 for None
ScopeLen(s) == IF s = None THEN 0 ELSE Len(CHOOSE x \in s : TRUE)

\* C8 as stated: with no pattern match infer_scope returns the first segment,
\* cut to 20 characters, of a file whose first segment is not src, lib or app,
\* and None when there is no such segment; no scope is longer than 20.
C8_FirstSegmentFallback ==
    /\ (AfterInferScope /\ PatternScopes(files) = << >>)
           => IF FirstSegments(files) = {} THEN scope = None
              ELSE scope \in { Some(Take(seg, 20)) : seg \in FirstSegments(files) }
    /\ AfterInferScope => ScopeLen(scope) <= 20

\* the files, in list order, that lie in a directory other than src, lib, app
InUsableDir(fs) ==
    { i \in 1 .. Len(fs) :
        Len(PathParts(fs[i].path)) > 1 /\ PathParts(fs[i].path)[1] \notin GENERIC_DIRS }

\* C8 amended: with no pattern match infer_scope returns the first directory,
\* cut to 20 characters, of the first file in list order that has a directory
\* and whose first directory is not src, lib or app, and None when no file has
\* one; no scope is longer than 20.
C8_FirstDirectoryFallback ==
    /\ (AfterInferScope /\ PatternScopes(files) = << >>)
           => IF InUsableDir(files) = {} THEN scope = None
              ELSE LET i == CHOOSE k \in InUsableDir(files) : \A j \in InUsableDir(files) : k <= j
                   IN  scope = Some(Take(PathParts(files[i].path)[1], 20))
    /\ AfterInferScope => ScopeLen(scope) <= 20

\* C8 happens when the first directory is longer than 20 characters
C8_Witness ==
    /\ AfterInferScope
    /\ PatternScopes(files) = << >>
    /\ Len(files) = 2
    /\ Len(PathParts(files[1].path)[1]) > 20
    /\ ScopeLen(scope) = 20

\* C9: when every path contains "test", infer_type returns test with
\* confidence 0.9, whatever the diff and the statuses.
C9_TestFastPath ==
    (AfterInferType /\ only_tests(files))
        => (commit_type = "test" /\ confidence = 9)

\* C9 happens for test files that are also documentation, scored as a feature
C9_Witness ==
    /\ Classified
    /\ only_tests(files)
    /\ only_docs(files)
    /\ has_new_files(files)
    /\ ScoredType(files, diff).type = "feat"
    /\ result.type = "test"
    /\ result.confidence = 9

\* C10 as stated: when every path ends in .md, .txt or .rst, infer_type
\* returns docs with confidence 0.9, whatever else the paths contain.
C10_DocsFastPath ==
    (AfterInferType /\ only_docs(files))
        => (commit_type = "docs" /\ confidence = 9)

\* C10 amended: when every path ends in .md, .txt or .rst and not every path
\* contains "test", infer_type returns docs with confidence 0.9.
C10_DocsFastPathAfterTests ==
    (AfterInferType /\ only_docs(files) /\ ~only_tests(files))
        => (commit_type = "docs" /\ confidence = 9)

\* C10 happens for documentation files that the scored path calls a feature
C10_Witness ==
    /\ Classified
    /\ only_docs(files)
    /\ ~only_tests(files)
    /\ ScoredType(files, diff).type = "feat"
    /\ result.type = "docs"
    /\ result.confidence = 9

\* type_scores holds the scores infer_type took its best guess from
AfterBestGuess == AfterInferType /\ ScoredPath

\* for each diff, whether no keyword of any type occurs in an added line of it
NO_KEYWORD_FOUND ==
    [ d \in DIFFS |->
        \A t \in 1 .. Len(TYPE_KEYWORDS) :
            KeywordScore(TYPE_KEYWORDS[t].keywords, AddedLinesLower(d)) = 0 ]

\* C11: when no type has a score above zero (no keyword in the added lines,
\* no Added file, no Deleted file without an Added one) and no fast path
\* applies, infer_type returns chore with confidence 0.3; whatever the input,
\* the type it returns is set and the confidence is not null.
C11_ChoreDefault ==
    /\ AfterBestGuess =>
          /\ (\A i \in 1 .. Len(type_scores) : type_scores[i].score <= 0)
                <=> ( /\ NO_KEYWORD_FOUND[diff]
                      /\ ~has_new_files(files)
                      /\ ~has_deletions(files) )
          /\ (\A i \in 1 .. Len(type_scores) : type_scores[i].score <= 0)
                => (commit_type = "chore" /\ confidence = DefaultConfidence)
    /\ AfterInferType =>
          /\ commit_type \in { TYPE_KEYWORDS[t].type : t \in 1 .. Len(TYPE_KEYWORDS) }
                                \cup { "chore" }
          /\ confidence \in 0 .. 10
    /\ Classified => (result.type = commit_type /\ result.confidence = confidence)

\* C11 happens for the uninformative diff: one modified source file whose
\* diff changes white space only
C11_Witness ==
    /\ Classified
    /\ files = << [ status |-> "M", path |-> "src/misc.py" ] >>
    /\ diff = " def run():\n-  x = 1\n+    x = 1\n"
    /\ type_scores = << >>
    /\ result.type = "chore"
    /\ result.confidence = 3

\* how many "+" a line begins with
RECURSIVE LeadingPluses(_)
LeadingPluses(line) ==
    IF StartsWith(line, "+") THEN 1 + LeadingPluses(Drop(line, 2)) ELSE 0

\* the lines of a diff that begin with one of the given numbers of "+"
LinesWithPluses(d, numbers) ==
    SelectSeq(Split(d, "\n"), LAMBDA line : LeadingPluses(line) \in numbers)

\* how many of the keywords a line contains, whatever their case in the line
KeywordHits(keywords, line) ==
    Cardinality({ k \in 1 .. Len(keywords) : Contains(Lower(line), keywords[k]) })

\* the hits of the keywords, summed over the lines
RECURSIVE SumHits(_, _)
SumHits(keywords, lines) ==
    IF lines = << >> THEN 0
    ELSE KeywordHits(keywords, Head(lines)) + SumHits(keywords, Tail(lines))

\* for each diff and each type, the hits of the type's keywords in the lines
\* that begin with exactly one "+"
SINGLE_PLUS_HITS ==
    [ d \in DIFFS |-> [ t \in 1 .. Len(TYPE_KEYWORDS) |->
        SumHits(TYPE_KEYWORDS[t].keywords, LinesWithPluses(d, { 1 })) ] ]

\* the same in the lines that begin with "+" and not with "+++"
ADDED_LINE_HITS ==
    [ d \in DIFFS |-> [ t \in 1 .. Len(TYPE_KEYWORDS) |->
        SumHits(TYPE_KEYWORDS[t].keywords, LinesWithPluses(d, { 1, 2 })) ] ]

\* type_scores holds what the keyword loop left in it
AfterKeywordLoop == pc = "adjust_scores"

\* type_scores holds exactly the types of the table with hits, with their hits
ScoresAre(hits) ==
    /\ \A t \in 1 .. Len(TYPE_KEYWORDS) :
          ScoreOf(type_scores, TYPE_KEYWORDS[t].type) = hits[t]
    /\ \A i \in 1 .. Len(type_scores) :
          /\ type_scores[i].score > 0
          /\ \E t \in 1 .. Len(TYPE_KEYWORDS) : TYPE_KEYWORDS[t].type = type_scores[i].type
          /\ \A j \in 1 .. Len(type_scores) : type_scores[j].type = type_scores[i].type => j = i

\* C12 as stated: the keyword score of each type counts its keywords in the
\* lines that begin with a single "+"; removed lines, context lines, the
\* "+++" header and lines that begin with more than one "+" change no score.
C12_SinglePlusLinesOnly ==
    AfterKeywordLoop => ScoresAre(SINGLE_PLUS_HITS[diff])

\* C12 amended: the keyword score of each type is the number of pairs of one
\* of its keywords and a line containing it, over the lines that begin with
\* "+" and not with "+++"; removed lines, context lines and lines that begin
\* with "+++" change no score.
C12_AddedLinesOnly ==
    AfterKeywordLoop => ScoresAre(ADDED_LINE_HITS[diff])

\* C12 happens for a diff whose header, context line and removed line hold
\* keywords of feat and fix, and whose one counted line begins with "++" and
\* holds a keyword of perf twice
C12_Witness ==
    /\ AfterKeywordLoop
    /\ Contains(diff, "+++ b/new_feature.js\n")
    /\ Contains(diff, "\n fix bug\n")
    /\ Contains(diff, "\n-@deprecated export class Api\n")
    /\ Contains(diff, "\n++ speed, more speed\n")
    /\ type_scores = << [ type |-> "perf", score |-> 1 ] >>

\* every commit type infer_type can score
SCORED_TYPES == { TYPE_KEYWORDS[t].type : t \in 1 .. Len(TYPE_KEYWORDS) } \cup { "chore" }

\* by how much the step from this state to the next raises the score of a type
Raised(type) == ScoreOf(type_scores', type) - ScoreOf(type_scores, type)

\* C13: the step after keyword scoring raises the score of feat by exactly 5
\* if and only if a file has Added status, raises the score of refactor by
\* exactly 2 if and only if a file has Deleted status and none has Added
\* status, and changes no other score.
C13_StatusAdjustments ==
    [][ AfterKeywordLoop =>
          /\ Raised("feat") = IF \E i \in 1 .. Len(files) : files[i].status = "A"
                              THEN 5 ELSE 0
          /\ Raised("refactor") = IF /\ \E i \in 1 .. Len(files) : files[i].status = "D"
                                     /\ \A i \in 1 .. Len(files) : files[i].status # "A"
                                  THEN 2 ELSE 0
          /\ \A type \in SCORED_TYPES \ { "feat", "refactor" } : Raised(type) = 0
          /\ \A i \in 1 .. Len(type_scores') : type_scores'[i].type \in SCORED_TYPES ]_vars

\* C13 happens for a deleted file beside an added one, with a diff that has no
\* keyword of feat or refactor: feat is raised to 5 and refactor stays unscored
C13_Witness ==
    /\ pc = "best_guess"
    /\ \E i \in 1 .. Len(files) : files[i].status = "D"
    /\ \E i \in 1 .. Len(files) : files[i].status = "A"
    /\ ScoreOf(KEYWORD_SCORES[diff], "feat") = 0
    /\ ScoreOf(type_scores, "feat") = 5
    /\ ScoreOf(type_scores, "refactor") = 0

\* what a removed line must hold, in any case, to show a breaking change
REMOVED_DECLARATIONS == { "public ", "export ", "@deprecated" }

\* for each diff, whether one of its lines with the "-" prefix holds a removed
\* declaration, or the diff holds the marker BREAKING CHANGE
REMOVAL_OR_MARKER ==
    [ d \in DIFFS |->
        \/ \E i \in 1 .. Len(Split(d, "\n")) :
              /\ StartsWith(Split(d, "\n")[i], "-")
              /\ \E literal \in REMOVED_DECLARATIONS :
                    Contains(Lower(Split(d, "\n")[i]), literal)
        \/ Contains(Lower(d), "breaking change") ]

\* C14: a change is reported as breaking only when a line with the "-" prefix
\* holds a public declaration, an export declaration or an @deprecated
\* annotation, or when the diff holds the marker BREAKING CHANGE; a "-"
\* followed by such text on an added or context line does not make it breaking.
C14_BreakingOnlyFromRemovedLines ==
    (AfterIsBreakingChange /\ is_breaking) => REMOVAL_OR_MARKER[diff]

\* the reasons in their listed order
LISTED_REASONS ==
    << "removed public API", "removed exports", "explicitly marked",
       "removed deprecated feature" >>

\* the reasons of the indicators that match a diff
MatchingReasons(d) == { BREAKING_INDICATORS[k].reason : k \in MATCHING_INDICATORS[d] }

\* the one of some reasons that is listed first
FirstListed(reasons) ==
    LISTED_REASONS[CHOOSE k \in 1 .. Len(LISTED_REASONS) :
                     /\ LISTED_REASONS[k] \in reasons
                     /\ \A j \in 1 .. (k - 1) : LISTED_REASONS[j] \notin reasons]

\* C15: when indicators match the diff, the reason returned is that of the
\* matching indicator listed first; when none matches the result is
\* (False, None); a diff whose only indicator is a removed export line gives
\* (True, "removed exports").
C15_FirstMatchingIndicator ==
    AfterIsBreakingChange =>
        /\ MatchingReasons(diff) \subseteq { LISTED_REASONS[k] : k \in 1 .. Len(LISTED_REASONS) }
        /\ MatchingReasons(diff) = {} => (is_breaking = FALSE /\ breaking_reason = None)
        /\ MatchingReasons(diff) # {} =>
              (is_breaking = TRUE /\ breaking_reason = Some(FirstListed(MatchingReasons(diff))))
        /\ diff = "-export function login(user) {\n+function login(user, opts) {\n" =>
              (is_breaking = TRUE /\ breaking_reason = Some("removed exports"))

\* C15 happens for a removed line that is both an export and @deprecated: two
\* indicators match and the one listed first gives the reason
C15_Witness ==
    /\ Classified
    /\ Contains(diff, "\n-@deprecated export class Api\n")
    /\ MatchingReasons(diff) = { "removed exports", "removed deprecated feature" }
    /\ result.breaking = TRUE
    /\ result.breaking_reason = Some("removed exports")

\* git reported at least one staged file
FilesStaged == git_root /\ files_output # ""

\* for each diff, whether it is without a recognizable hunk: no hunk header,
\* no added line and no removed line
NO_HUNKS ==
    [ d \in DIFFS |->
        \A i \in 1 .. Len(Split(d, "\n")) :
            /\ ~StartsWith(Split(d, "\n")[i], "@@")
            /\ ~StartsWith(Split(d, "\n")[i], "+")
            /\ ~StartsWith(Split(d, "\n")[i], "-") ]

\* classification never fails: a run on staged files ends in a classification
\* with every field set, never in an error
NeverFails ==
    (pc = "returned" /\ FilesStaged) =>
        /\ Classified
        /\ "error" \notin DOMAIN result
        /\ result.files_changed = Len(files)
        /\ Len(files) > 0
        /\ result.type \in SCORED_TYPES
        /\ result.confidence \in 0 .. 10
        /\ result.description # ""
        /\ result.breaking \in BOOLEAN

\* C16 as stated: for every non-empty file list and every diff classification
\* never fails, and for a diff without a recognizable hunk the result is
\* chore with confidence 0.3.
C16_NoHunksChore ==
    /\ NeverFails
    /\ (Classified /\ NO_HUNKS[diff]) =>
          (result.type = "chore" /\ result.confidence = 3)

\* C16 amended: classification never fails, and for a diff without a
\* recognizable hunk the file list alone decides: test with 0.9 when every
\* path contains "test", else docs with 0.9 when every path ends in .md, .txt
\* or .rst, else feat with 0.5 when a file is Added, else refactor with 0.2
\* when a file is Deleted, else chore with 0.3.
C16_NoHunksFileListDecides ==
    /\ NeverFails
    /\ (Classified /\ NO_HUNKS[diff]) =>
          << result.type, result.confidence >> =
              IF only_tests(files) THEN << "test", 9 >>
              ELSE IF only_docs(files) THEN << "docs", 9 >>
              ELSE IF \E i \in 1 .. Len(files) : files[i].status = "A" THEN << "feat", 5 >>
              ELSE IF \E i \in 1 .. Len(files) : files[i].status = "D" THEN << "refactor", 2 >>
              ELSE << "chore", 3 >>

\* C16 happens for a malformed diff, one context line without a hunk header,
\* staged with modified source files only
C16_Witness ==
    /\ Classified
    /\ diff # ""
    /\ NO_HUNKS[diff]
    /\ ~only_tests(files) /\ ~only_docs(files)
    /\ \A i \in 1 .. Len(files) : files[i].status = "M"
    /\ result.type = "chore"
    /\ result.confidence = 3

\* description holds the value of generate_description
AfterGenerateDescription == pc \in { "is_breaking_change", "return" } \/ Classified

\* C17: every description generate_description produces begins with a
\* lowercase letter and does not end with a period.
C17_LowercaseInitialNoPeriod ==
    AfterGenerateDescription =>
        /\ Len(description) > 0
        /\ \E k \in 1 .. Len(LowerCase) : Take(description, 1) = SubSeq(LowerCase, k, k)
        /\ ~EndsWith(description, ".")

\* the identifiers a line defines: each word that follows "def ", "function ",
\* "class " or "const " in it
DefinedIn(line) ==
    { WordPrefix(Drop(line, q + Len(ADDED_PATTERNS[k]))) :
        << k, q >> \in { kq \in (1 .. Len(ADDED_PATTERNS)) \X (1 .. Len(line)) :
            /\ kq[2] + Len(ADDED_PATTERNS[kq[1]]) <= Len(line)
            /\ SubSeq(line, kq[2], kq[2] + Len(ADDED_PATTERNS[kq[1]]) - 1) = ADDED_PATTERNS[kq[1]]
            /\ IsWordChar(SubSeq(line, kq[2] + Len(ADDED_PATTERNS[kq[1]]),
                                       kq[2] + Len(ADDED_PATTERNS[kq[1]]))) } }

\* for each diff, the identifiers defined on its added lines
DEFINED_ON_ADDED_LINES ==
    [ d \in DIFFS |->
        UNION { DefinedIn(LinesWithPluses(d, { 1, 2 })[i]) :
                  i \in 1 .. Len(LinesWithPluses(d, { 1, 2 })) } ]

\* C18: for type feat, generate_description returns "add <entity>" for an
\* identifier defined on an added line of the diff when there is one, and the
\* generic fallback otherwise; files [(A, "src/auth/oauth.py")] with a diff
\* adding def handle_oauth_callback are classified feat, scope auth,
\* description "add handle_oauth_callback".
C18_FeatAddsEntityOfAddedLine ==
    /\ (AfterGenerateDescription /\ commit_type = "feat") =>
          IF DEFINED_ON_ADDED_LINES[diff] # {}
          THEN \E entity \in DEFINED_ON_ADDED_LINES[diff] : description = "add " \o entity
          ELSE description = DefaultDescription(files)
    /\ ( /\ Classified
         /\ files = << [ status |-> "A", path |-> "src/auth/oauth.py" ] >>
         /\ Contains(diff, "+def handle_oauth_callback(") )
          => ( /\ result.type = "feat"
               /\ result.scope = Some("auth")
               /\ result.description = "add handle_oauth_callback" )

\* for each diff, whether generate_description finds neither an entity nor one
\* of the keywords it looks for in it
NO_ENTITY_NO_KEYWORD ==
    [ d \in DIFFS |->
        /\ ENTITIES[d] = << >>
        /\ \A keyword \in { "null", "check", "error", "cache", "index" } :
              ~Contains(LOWERED_DIFF[d], keyword) ]

\* "add" if any file has Added status, "update" otherwise
Verb == IF \E i \in 1 .. Len(files) : files[i].status = "A" THEN "add" ELSE "update"

\* the number of files, fewer than ten, in decimal
FileCount == SubSeq(Digits, Len(files) + 1, Len(files) + 1)

\* the types generate_description has a template of its own for
TEMPLATE_TYPES == { "fix", "refactor", "perf", "docs", "test" }

AloneResults(fs, d) ==
    { [ type |-> infer_type(fs, d).type,
        scope |-> s,
        description |-> generate_description(fs, d, infer_type(fs, d).type),
        confidence |-> infer_type(fs, d).confidence,
        breaking |-> is_breaking_change(d).breaking,
        breaking_reason |-> is_breaking_change(d).reason,
        files_changed |-> Len(fs) ] : s \in infer_scope(fs) }

\* C20: classification has no shared mutable state: no step of scope, type,
\* description or breaking inference changes the scope-pattern table or the
\* type-keyword table, and callers that classify independent inputs in any
\* interleaving each get a result they get when run alone.
C20_NoSharedMutableState ==
    /\ [][class_tables' = class_tables]_vars
    /\ [](class_tables = << SCOPE_PATTERNS, TYPE_KEYWORDS >>)
    /\ [](\A t \in THREADS :
            pc[t] = "returned" => result[t] \in AloneResults(files[t], diff[t]))

\* C20 happens when a caller has its result while another, classifying other
\* files, is between two of its inferences
C20_Witness ==
    /\ pc[1] = "returned"
    /\ pc[2] = "generate_description"
    /\ files[1] # files[2]
    /\ result[1].type = "feat"
    /\ result[1].scope = Some("auth")
    /\ commit_type[2] = "fix"

\* main has exited
Exited == main_pc = "exited"

\* C21: when there is nothing to classify (nothing staged, or no repository)
\* main reports the error and does nothing else; in every run git commit is
\* executed only after a successful analysis, with --commit given and the
\* user answering y.
C21_CommitOnlyWhenConfirmed ==
    /\ git_commit # None =>
          /\ Classified
          /\ args.commit
          /\ ~args.json
          /\ response \in { "y", "Y" }
          /\ git_commit = Some(CommitMsg(result))
    /\ (Exited /\ ~Classified) =>
          /\ git_commit = None
          /\ exit_code = 1
          /\ stdout \in { << "Error: Not in a git repository" >>,
                           << "Error: No staged changes found. Use: git add <files>" >> }
          /\ response = None
    /\ (pc = "returned" /\ ~Classified) => main_pc \in { "analyze", "exited" }

\* C21 happens both ways: a run with nothing staged has exited, and in
\* another state a confirmed run has committed; this is the first
C21_Witness ==
    /\ Exited
    /\ git_root
    /\ files_output = ""
    /\ args.commit
    /\ exit_code = 1
    /\ git_commit = None

\* the step is a call of update_state
UpdateStateCalled == call'.op = "update_state"

\* C22: update_state(p, u) merges u into the state of p: afterwards
\* get_state(p) is the previous state of p with the keys of u overridden, keys
\* of p not in u keep their values, and every other plugin's state is
\* unchanged; a plugin that was never updated has the empty dict as state.
C22_UpdateStateMerges ==
    /\ \A q \in PLUGINS : get_state(ccmp_file, q) = << >>
    /\ [][ /\ UpdateStateCalled =>
                LET p == call'.plugin
                    u == call'.updates
                    before == get_state(ccmp_file, p)
                    after == get_state(ccmp_file', p)
                IN  /\ DOMAIN after = DOMAIN before \cup DOMAIN u
                    /\ \A k \in DOMAIN u : after[k] = u[k]
                    /\ \A k \in DOMAIN before \ DOMAIN u : after[k] = before[k]
                    /\ \A q \in PLUGINS \ { p } :
                          get_state(ccmp_file', q) = get_state(ccmp_file, q)
           /\ \A q \in PLUGINS :
                get_state(ccmp_file', q) # get_state(ccmp_file, q) =>
                    /\ call'.op \in { "update_state", "set_active", "clear_state" }
                    /\ call'.plugin = q
         ]_vars

\* an update of cycles_today alone has kept the plugin's active key, next to
\* another plugin's state
C22_Witness ==
    /\ call.op = "update_state"
    /\ call.plugin = "tdd-workflow"
    /\ call.updates = [ cycles_today |-> 5 ]
    /\ get_state(ccmp_file, "tdd-workflow") = [ active |-> TRUE, cycles_today |-> 5 ]
    /\ get_state(ccmp_file, "claude-context-manager") = [ active |-> FALSE ]

\* C23: load_session_objectives returns a list whatever .sessions/state.json
\* holds: absent, not JSON, or any JSON value of the file and of its
\* objectives key.
C23_AlwaysReturnsList ==
    objectives.outcome # "none" =>
        /\ objectives.outcome = "returned"
        /\ objectives.value.t = "array"

\* C24: the commit header that is suggested for a classified index (type,
\* "(scope)" when a scope was inferred, "!" when breaking, ": description")
\* is accepted by validate_commit, for every file list and diff.
C24_SuggestedHeaderValid ==
    Classified => validate_commit(CommitMsg(result)).valid

\* both update_state calls have completed
BothDone == DOMAIN procs = PROCESSES /\ \A p \in PROCESSES : procs[p].pc = "done"

\* the file holds the update of process p
HoldsUpdate(p) ==
    LET plugin_state == get_state(ccmp_file, procs[p].plugin) IN
    \A k \in DOMAIN procs[p].updates :
        k \in DOMAIN plugin_state /\ plugin_state[k] = procs[p].updates[k]

\* C25: when two processes update .ccmp/state.json concurrently for different
\* plugins, no update is lost: once both update_state calls have completed,
\* in every interleaving of their reads and writes, the file holds both
\* plugins' updates.
C25_NoLostUpdate ==
    BothDone => \A p \in PROCESSES : HoldsUpdate(p)

\* session start has just completed successfully
StartCompleted ==
    /\ session.cmd = "start"
    /\ session.outcome = "returned"
    /\ session.returned = 0

\* C26: after session start has completed successfully in a project with a
\* .ccmp directory, the integration API reads the session it recorded:
\* is_active("session-management") is true and get_state holds the branch,
\* the objectives and the mode just started.
C26_StartedSessionIsActive ==
    (StartCompleted /\ ".ccmp" \in dirs) =>
        /\ is_active(ccmp_file, "session-management")
        /\ LET session_state == get_state(ccmp_file, "session-management")
           IN  /\ { "branch", "objectives", "mode" } \subseteq DOMAIN session_state
               /\ session_state.branch = session.branch
               /\ session_state.objectives = session.objectives
               /\ session_state.mode = session.mode

\* init_session has completed successfully and nothing else was run
JustInitialized ==
    /\ session.cmd = "init_session"
    /\ session.outcome = "returned"
    /\ session.returned = 0
    /\ dirs \ { ".ccmp" } = { ".git", ".session", ".git/sessions" }
    /\ ~sessions_file.exists

\* C27: in a git repository where init_session has just completed and
\* nothing else was run, session start with a branch and an objective passes
\* the initialization check, writes .sessions/state.json with that branch,
\* objectives, start time and mode, and returns 0.
C27_StartAfterInitSession ==
    [][ (JustInitialized /\ session'.cmd = "start") =>
            /\ session'.outcome = "returned"
            /\ session'.returned = 0
            /\ sessions_file' = JsonFile(SessionState(session'.branch, session'.objectives,
                                                      session'.mode))
      ]_vars

\* C28: every cycle that analyze_tdd_cycle_timing records pairs a RED commit
\* with a GREEN commit made after it, so its duration_minutes is not
\* negative, for every history in git log order.
C28_GreenAfterRed ==
    tdd_analysis.outcome = "returned" =>
        \A i \in 1 .. Len(tdd_analysis.cycles) :
            LET cycle == tdd_analysis.cycles[i] IN
            /\ cycle.red_time <= cycle.green_time
            /\ cycle.duration_minutes >= 0

\* the names of the four lists
BUCKETS == { "breaking_commits", "feature_commits", "fix_commits", "other_commits" }

\* the version a is greater than b in (major, minor, patch) order
GreaterVersion(a, b) ==
    \/ a.major > b.major
    \/ a.major = b.major /\ a.minor > b.minor
    \/ a.major = b.major /\ a.minor = b.minor /\ a.patch > b.patch

\* C29: every analysed subject is in exactly one of the four lists, and
\* get_next_version returns a version greater than the current one: a major
\* bump when a commit is breaking, else a minor bump when one is a feat or a
\* fix, else a patch bump, the lower components reset to 0 on major and minor
\* bumps.
C29_BucketsAndBump ==
    /\ version_pc \in { "analyzed", "done" } =>
          \A subject \in SUBJECTS :
              \E b \in BUCKETS :
                  /\ Count(commit_analyzer[b], subject) = Count(commit_subjects, subject)
                  /\ \A other \in BUCKETS \ { b } : Count(commit_analyzer[other], subject) = 0
    /\ version_pc = "done" =>
          /\ GreaterVersion(next_version.version, current)
          /\ next_version.version =
                IF commit_analyzer.breaking_commits # << >>
                THEN Version(current.major + 1, 0, 0)
                ELSE IF commit_analyzer.feature_commits # << >> \/ commit_analyzer.fix_commits # << >>
                THEN Version(current.major, current.minor + 1, 0)
                ELSE Version(current.major, current.minor, current.patch + 1)

\* a fix and a docs commit have taken 1.2.3 to 1.3.0
C29_Witness ==
    /\ version_pc = "done"
    /\ commit_subjects = << "fix(api): handle null", "docs: update readme" >>
    /\ commit_analyzer.fix_commits = << "fix(api): handle null" >>
    /\ commit_analyzer.other_commits = << "docs: update readme" >>
    /\ current = Version(1, 2, 3)
    /\ next_version.version = Version(1, 3, 0)

\* the extended catalog was read as a dict
CatalogRead == extended_file.exists /\ extended_file.valid

\* the extended catalog lacks one of the keys name, id, plugins
LacksKey == CatalogRead /\ ~({ "name", "id", "plugins" } \subseteq DOMAIN extended_file.value)

\* the extended catalog contains two plugins with the same name
SameNameTwice ==
    /\ CatalogRead
    /\ "plugins" \in DOMAIN extended_file.value
    /\ LET plugins == extended_file.value.plugins IN
       \E i, j \in 1 .. Len(plugins) :
           /\ i # j
           /\ "name" \in DOMAIN plugins[i]
           /\ "name" \in DOMAIN plugins[j]
           /\ plugins[i].name = plugins[j].name

\* the written entry is the extended entry minus exactly the five fields
MinusExtendedFields(written, entry) ==
    /\ DOMAIN written = DOMAIN entry \ { "featured", "mcpTools", "pluginCount", "pricing", "components" }
    /\ \A k \in DOMAIN written : written[k] = entry[k]

\* C30: sync_marketplace writes marketplace.json only after validation has
\* passed: when the extended catalog lacks one of name, id, plugins, or holds
\* two plugins of one name, the run ends in the error outcome and leaves
\* marketplace.json unchanged; when it succeeds, every written plugin entry is
\* the extended entry minus exactly featured, mcpTools, pluginCount, pricing
\* and components.
C30_WriteAfterValidation ==
    [][ sync'.outcome # "none" =>
            /\ output_file' # output_file => (CatalogRead /\ ~LacksKey /\ ~SameNameTwice)
            /\ (LacksKey \/ SameNameTwice) =>
                  (sync'.outcome = "error" /\ output_file' = output_file)
            /\ sync'.outcome = "complete" =>
                  /\ output_file'.exists /\ output_file'.valid
                  /\ Len(output_file'.value.plugins) = Len(extended_file.value.plugins)
                  /\ \A i \in 1 .. Len(extended_file.value.plugins) :
                        MinusExtendedFields(output_file'.value.plugins[i],
                                            extended_file.value.plugins[i])
      ]_vars

\* a run has written two entries, one of which lost its five extended fields
C30_Witness ==
    /\ sync.outcome = "complete"
    /\ Len(extended_file.value.plugins) = 2
    /\ DOMAIN extended_file.value.plugins[1] =
          { "name", "version", "featured", "mcpTools", "pluginCount", "pricing", "components" }
    /\ output_file.value.plugins[1] = [ name |-> "git-commit", version |-> "1.0.0" ]
    /\ output_file.value.plugins[2].name = "session-management"

====
